---- MODULE Spec2Model ----
(***************************************************************************)
(* Model of ticktask's authentication subsystem (ticktask/api/auth.py):    *)
(* TokenStorage (encrypted token file + key file) and OAuth2Handler (the   *)
(* local callback listener, the authorization wait, the code exchange,     *)
(* the refresh and the cached-token lookup).                               *)
(*                                                                         *)
(* Time.  `now` is the wall clock read by datetime.now(); its unit is half *)
(* an hour.  `loop_time` is the event loop's monotonic clock read by       *)
(* asyncio.get_event_loop().time(); its unit is one sleep of the polling   *)
(* loop, and its origin is the start of the running wait (only differences *)
(* of it are ever used).  The two clocks are independent.                  *)
(*                                                                         *)
(* Python values.  None is the string "None"; a dict key that is not in    *)
(* the dict is the string "Missing".                                       *)
(***************************************************************************)
EXTENDS Integers, Sequences, FiniteSets, TLC

\* ------------------------------------------------------------------ bounds
\* Largest wall-clock value explored.
MaxNow == 4
\* Longest single sleep of the polling loop, in loop-clock units (a sleep of
\* 0.1 s may overrun).
MaxSleep == 2
\* Number of symmetric keys Fernet.generate_key() produces over a run; each
\* is new, so the keys are numbered in the order they are generated.
MaxKeys == 2

\* ------------------------------------------------------- program constants
\* timedelta(hours=1), in wall-clock units.
Hour == 2
\* wait_for_authorization's default timeout (300 s), in loop-clock units.
Timeout == 2

\* ------------------------------------------------------------ value spaces
None == "None"
Missing == "Missing"

AccessTokens == {"A1", "A2"}
RefreshTokens == {"R1"}
Codes == {"c1", "c2"}
Errors == {"e1"}

\* The JSON bodies a 2xx answer of the token endpoint may carry: an
\* access_token, a refresh_token or none, and no saved_at.
Responses ==
    [access_token : AccessTokens,
     refresh_token : RefreshTokens \cup {Missing},
     saved_at : {Missing}]

\* What a POST to the token endpoint may come back with: a 2xx answer with
\* one of the bodies, or a failure (a non-2xx answer, on which
\* response.raise_for_status() raises, or a transport error).
HTTPStatusError == "HTTPStatusError"

\* datetime.isoformat(): the instant written as a string.
\* datetime.fromisoformat(): the instant that string denotes.
isoformat(t) == ToString(t)
fromisoformat(s) == CHOOSE t \in 0..MaxNow : isoformat(t) = s

\* dict.get(key, default) and `key in dict` on a token dict.
Get(v, default) == IF v = Missing THEN default ELSE v
Has(v) == v # Missing

NoTokens == [access_token |-> Missing, refresh_token |-> Missing, saved_at |-> Missing]

\* The keys of a token dict, in the order json.dumps writes them.
TokenKeys == <<"access_token", "refresh_token", "saved_at">>

\* Variant of json_dumps: the refresh_token is left out.
json_dumps_partial(tokens) ==
    LET present == SelectSeq(TokenKeys, LAMBDA key : key # "refresh_token" /\ Has(tokens[key]))
    IN [i \in 1..Len(present) |-> <<present[i], tokens[present[i]]>>]

\* json.dumps(tokens): the key/value pairs of the keys the dict has.
json_dumps(tokens) ==
    LET present == SelectSeq(TokenKeys, LAMBDA key : Has(tokens[key]))
    IN [i \in 1..Len(present) |-> <<present[i], tokens[present[i]]>>]

\* json.loads(text): the dict with the pairs the text holds.
json_loads(text) ==
    [key \in {TokenKeys[i] : i \in 1..Len(TokenKeys)} |->
        IF \E i \in 1..Len(text) : text[i][1] = key
        THEN text[CHOOSE i \in 1..Len(text) : text[i][1] = key][2]
        ELSE Missing]

Answers ==
    [status : {"ok"}, body : Responses] \cup {[status |-> "error", body |-> NoTokens]}
NoAnswer == [status |-> "none", body |-> NoTokens]

\* The token file: absent, a Fernet token made with `key` over the JSON
\* text `json`, bytes that are no valid Fernet token, or no bytes at all.
NoFile == [kind |-> "none", key |-> 0, json |-> <<>>]
CorruptBlob == [kind |-> "corrupt", key |-> 0, json |-> <<>>]
EmptyFile == [kind |-> "empty", key |-> 0, json |-> <<>>]
Blob(k, text) == [kind |-> "blob", key |-> k, json |-> text]

NoReq == [grant_type |-> "none", arg |-> None]
Returned(v) == [kind |-> "return", val |-> v]
Raised(e) == [kind |-> "raise", val |-> e]
NoRedirect == [code |-> None, error |-> None]

\* The record of a call that completed in the step leading to the current
\* state: its name, its outcome, the request it sent to the token endpoint
\* and the answer it got (NoReq, NoAnswer when none), the token file it found
\* (the token file it left is `file`), for login, what the first redirect of
\* its wait that carried a code or an error recorded, and for a callback
\* request, its query parameters and the handler's recorded code and error
\* as it found them.  NoCall in every other state.
NoCall == [op |-> "none", ret |-> Returned(None), req |-> NoReq, ans |-> NoAnswer,
           pre |-> NoFile, first |-> NoRedirect, query |-> NoRedirect,
           was |-> NoRedirect]

VARIABLES
    now,            \* wall clock
    loop_time,      \* event-loop clock
    keyFile,        \* content of key.key: 0 when the file is missing, else a key
    fernet,         \* TokenStorage._fernet: the key this process holds
    file,           \* content of tokens.enc
    _server,        \* OAuth2Handler._server: None or "runner"
    _auth_code,     \* OAuth2Handler._auth_code
    _auth_error,    \* OAuth2Handler._auth_error
    port,           \* who listens on the callback port: "free", "self", "other"
    pc,             \* position of the running login(), "idle" when none runs
    start_time,     \* wait_for_authorization's local start_time
    code,           \* login's local `code`, None until the wait returned it
    first_redirect, \* what the running wait's first redirect with a code or
                    \* an error recorded (NoRedirect when none arrived yet)
    last,           \* the call that just completed (NoCall when none did)
    config,         \* the configured api.client_id and api.client_secret
    writer,         \* a save_tokens in progress: its position and arguments
    reader,         \* what a load_tokens of a second process returned
    query           \* a due-date query: its inputs and its result

vars == <<now, loop_time, keyFile, fernet, file, _server, _auth_code, _auth_error,
          port, pc, start_time, code, first_redirect, last, config, writer,
          reader, query>>

\* The variables the OAuth2Handler's own operations never touch.
sideVars == <<config, writer, reader, query>>

flowVars == <<loop_time, _server, _auth_code, _auth_error, port, pc, start_time,
              code, first_redirect>>

\* ------------------------------------------------------------ TokenStorage
\* _get_or_create_key: the key read from key.key, or a fresh one written to it.
_get_or_create_key(kf, newest) == IF kf # 0 THEN kf ELSE newest + 1

\* save_tokens: stamp saved_at, encrypt the JSON, overwrite the file.
Stamp(tokens, t) == [tokens EXCEPT !.saved_at = isoformat(t)]

\* Variant of save_tokens: the dict is written as given, with no saved_at stamp.
save_tokens_unstamped(k, tokens, t) == Blob(k, json_dumps(tokens))

save_tokens(k, tokens, t) == Blob(k, json_dumps(Stamp(tokens, t)))

\* Variant of Decrypts: a token made with any key is accepted.
Decrypts_any_key(k, f) == f.kind = "blob"

\* Fernet.decrypt succeeds only on a token made with the same key.
Decrypts(k, f) == f.kind = "blob" /\ f.key = k

\* load_tokens: the decrypted dict, or None when the file is missing or does
\* not decrypt.  None is NoTokens here: the one caller tests `not tokens`,
\* which None and the empty dict both satisfy.
load_tokens(k, f) == IF Decrypts(k, f) THEN json_loads(f.json) ELSE NoTokens

\* Variant of clear_tokens: the file is left in place.
clear_tokens_kept(f) == f

\* Variant of clear_tokens: only a well-formed token file is removed.
clear_tokens_blob_only(f) == IF f.kind = "blob" THEN NoFile ELSE f

\* clear_tokens: unlink the file when it exists.
clear_tokens(f) == IF f.kind # "none" THEN NoFile ELSE f

\* ----------------------------------------------------------- OAuth2Handler
\* Credentials as a configured installation has them.
Configured == [client_id |-> "id", client_secret |-> "secret"]
NoWriter == [pc |-> "idle", tokens |-> NoTokens, at |-> 0, prev |-> NoFile]
NoRead == [done |-> FALSE, tokens |-> NoTokens, during |-> NoWriter]
NoQuery == [tasks |-> <<>>, today |-> 0, due_filter |-> "none", result |-> <<>>,
            done |-> FALSE]

AuthInit ==
    /\ now = 0
    /\ loop_time = 0
    /\ keyFile = 1
    /\ fernet = 1
    /\ file = NoFile
    /\ _server = None
    /\ _auth_code = None
    /\ _auth_error = None
    /\ port = "free"
    /\ pc = "idle"
    /\ start_time = 0
    /\ code = None
    /\ first_redirect = NoRedirect
    /\ last = NoCall

Init ==
    /\ AuthInit
    /\ config = Configured
    /\ writer = NoWriter
    /\ reader = NoRead
    /\ query = NoQuery

Call(op, ret, req, ans, first) ==
    [op |-> op, ret |-> ret, req |-> req, ans |-> ans, pre |-> file, first |-> first,
     query |-> NoRedirect, was |-> NoRedirect]

\* The record of a handled callback request with query parameters c and e,
\* answered with the given HTTP status.
Handled(c, e, status) ==
    [op |-> "_handle_callback", ret |-> Returned(ToString(status)), req |-> NoReq,
     ans |-> NoAnswer, pre |-> file, first |-> NoRedirect,
     query |-> [code |-> c, error |-> e],
     was |-> [code |-> _auth_code, error |-> _auth_error]]

\* Variant of NeedsRefresh: the age test written with >=.
NeedsRefreshAtBoundary(tokens, t) ==
    t - fromisoformat(Get(tokens.saved_at, isoformat(t))) >= Hour

\* get_access_token line 168: the stored record is older than one hour.
NeedsRefresh(tokens, t) ==
    t - fromisoformat(Get(tokens.saved_at, isoformat(t))) > Hour

\* refresh_token: POST grant_type=refresh_token; on a 2xx answer save the body
\* and return it (stamped by save_tokens), otherwise raise.
refresh_request(rt) == [grant_type |-> "refresh_token", arg |-> rt]

\* Variant of refresh_token: the new tokens are returned but not saved.
refresh_token_unsaved(k, f, ans, t) ==
    IF ans.status = "ok"
    THEN [raised |-> FALSE, tokens |-> Stamp(ans.body, t), file |-> f]
    ELSE [raised |-> TRUE, tokens |-> NoTokens, file |-> f]

\* Variant of refresh_token: a response without a refresh token keeps the
\* one of the record it replaces.
refresh_token_merged(k, f, ans, t) ==
    IF ans.status = "ok"
    THEN LET merged ==
                 IF ans.body.refresh_token = Missing
                 THEN [ans.body EXCEPT !.refresh_token = load_tokens(k, f).refresh_token]
                 ELSE ans.body
         IN [raised |-> FALSE, tokens |-> Stamp(merged, t),
             file |-> save_tokens(k, merged, t)]
    ELSE [raised |-> TRUE, tokens |-> NoTokens, file |-> f]

refresh_token(k, f, ans, t) ==
    IF ans.status = "ok"
    THEN [raised |-> FALSE, tokens |-> Stamp(ans.body, t),
          file |-> save_tokens(k, ans.body, t)]
    ELSE [raised |-> TRUE, tokens |-> NoTokens, file |-> f]

\* Variant of get_access_token: a cache hit saves the record again, which
\* renews its saved_at.
get_access_token_touching(k, f, ans, t) ==
    LET tokens == load_tokens(k, f) IN
    IF tokens = NoTokens
    THEN [ret |-> Returned(None), req |-> NoReq, ans |-> NoAnswer, file |-> f]
    ELSE IF NeedsRefresh(tokens, t)
    THEN IF Has(tokens.refresh_token)
         THEN LET r == refresh_token(k, f, ans, t) IN
              IF r.raised
              THEN [ret |-> Returned(None),
                    req |-> refresh_request(tokens.refresh_token),
                    ans |-> ans, file |-> r.file]
              ELSE [ret |-> Returned(Get(r.tokens.access_token, None)),
                    req |-> refresh_request(tokens.refresh_token),
                    ans |-> ans, file |-> r.file]
         ELSE [ret |-> Returned(None), req |-> NoReq, ans |-> NoAnswer, file |-> f]
    ELSE [ret |-> Returned(Get(tokens.access_token, None)), req |-> NoReq,
          ans |-> NoAnswer, file |-> save_tokens(k, tokens, t)]

\* Variant of get_access_token: no try/except around the refresh.
get_access_token_uncaught(k, f, ans, t) ==
    LET tokens == load_tokens(k, f) IN
    IF tokens = NoTokens
    THEN [ret |-> Returned(None), req |-> NoReq, ans |-> NoAnswer, file |-> f]
    ELSE IF NeedsRefresh(tokens, t)
    THEN IF Has(tokens.refresh_token)
         THEN LET r == refresh_token(k, f, ans, t) IN
              IF r.raised
              THEN [ret |-> Raised(HTTPStatusError),
                    req |-> refresh_request(tokens.refresh_token),
                    ans |-> ans, file |-> r.file]
              ELSE [ret |-> Returned(Get(r.tokens.access_token, None)),
                    req |-> refresh_request(tokens.refresh_token),
                    ans |-> ans, file |-> r.file]
         ELSE [ret |-> Returned(None), req |-> NoReq, ans |-> NoAnswer, file |-> f]
    ELSE [ret |-> Returned(Get(tokens.access_token, None)), req |-> NoReq,
          ans |-> NoAnswer, file |-> f]

\* Variant of get_access_token: an expired record without a refresh token
\* still yields its access token.
get_access_token_stale(k, f, ans, t) ==
    LET tokens == load_tokens(k, f) IN
    IF tokens = NoTokens
    THEN [ret |-> Returned(None), req |-> NoReq, ans |-> NoAnswer, file |-> f]
    ELSE IF NeedsRefresh(tokens, t) /\ Has(tokens.refresh_token)
    THEN LET r == refresh_token(k, f, ans, t) IN
         IF r.raised
         THEN [ret |-> Returned(None),
               req |-> refresh_request(tokens.refresh_token),
               ans |-> ans, file |-> r.file]
         ELSE [ret |-> Returned(Get(r.tokens.access_token, None)),
               req |-> refresh_request(tokens.refresh_token),
               ans |-> ans, file |-> r.file]
    ELSE [ret |-> Returned(Get(tokens.access_token, None)), req |-> NoReq,
          ans |-> NoAnswer, file |-> f]

\* get_access_token, run at time t on token file f with the endpoint's answer
\* ans (read only when a request is sent): the outcome, the request sent, the
\* answer read and the token file left behind.
get_access_token(k, f, ans, t) ==
    LET tokens == load_tokens(k, f) IN
    IF tokens = NoTokens
    THEN [ret |-> Returned(None), req |-> NoReq, ans |-> NoAnswer, file |-> f]
    ELSE IF NeedsRefresh(tokens, t)
    THEN IF Has(tokens.refresh_token)
         THEN LET r == refresh_token(k, f, ans, t) IN
              IF r.raised
              THEN [ret |-> Returned(None),
                    req |-> refresh_request(tokens.refresh_token),
                    ans |-> ans, file |-> r.file]
              ELSE [ret |-> Returned(Get(r.tokens.access_token, None)),
                    req |-> refresh_request(tokens.refresh_token),
                    ans |-> ans, file |-> r.file]
         ELSE [ret |-> Returned(None), req |-> NoReq, ans |-> NoAnswer, file |-> f]
    ELSE [ret |-> Returned(Get(tokens.access_token, None)), req |-> NoReq,
          ans |-> NoAnswer, file |-> f]

GetAccessToken ==
    /\ pc = "idle"
    /\ \E ans \in Answers :
         LET r == get_access_token(fernet, file, ans, now) IN
         /\ file' = r.file
         /\ last' = Call("get_access_token", r.ret, r.req, r.ans, NoRedirect)
    /\ UNCHANGED <<now, keyFile, fernet>>
    /\ UNCHANGED flowVars
    /\ UNCHANGED sideVars

\* logout: token_storage.clear_tokens().
Logout ==
    /\ pc = "idle"
    /\ file' = clear_tokens(file)
    /\ last' = Call("logout", Returned(None), NoReq, NoAnswer, NoRedirect)
    /\ UNCHANGED <<now, keyFile, fernet>>
    /\ UNCHANGED flowVars
    /\ UNCHANGED sideVars

\* The wall clock advances.
Tick ==
    /\ now < MaxNow
    /\ now' = now + 1
    /\ last' = NoCall
    /\ UNCHANGED <<keyFile, fernet, file>>
    /\ UNCHANGED flowVars
    /\ UNCHANGED sideVars

\* ------------------------------------------------ the authorization wait
\* Variant of _handle_callback: the code parameter is tested before the error
\* parameter.
_handle_callback_code_first(c, e) ==
    IF c # None
    THEN [code |-> c, error |-> _auth_error, status |-> 200]
    ELSE IF e # None
    THEN [code |-> _auth_code, error |-> e, status |-> 400]
    ELSE [code |-> _auth_code, error |-> _auth_error, status |-> 400]

\* _handle_callback: the handler's fields after a redirect carrying the query
\* parameters c and e (None when the parameter is absent or empty), and the
\* status of the response.
_handle_callback(c, e) ==
    IF e # None
    THEN [code |-> _auth_code, error |-> e, status |-> 400]
    ELSE IF c # None
    THEN [code |-> c, error |-> _auth_error, status |-> 200]
    ELSE [code |-> _auth_code, error |-> _auth_error, status |-> 400]

\* The handler's fields after a redirect with query parameters c and e.
Redirect(c, e) ==
    LET r == _handle_callback(c, e) IN
    /\ _auth_code' = r.code
    /\ _auth_error' = r.error
    /\ first_redirect' =
          IF pc # "idle" /\ first_redirect = NoRedirect /\ (c # None \/ e # None)
          THEN [code |-> r.code, error |-> r.error]
          ELSE first_redirect

\* A redirect reaches the listener this handler has bound.
Callback ==
    /\ port = "self"
    /\ \E c \in Codes \cup {None}, e \in Errors \cup {None} : Redirect(c, e)
    /\ last' = NoCall
    /\ UNCHANGED <<now, loop_time, keyFile, fernet, file, _server, port, pc,
                   start_time, code>>
    /\ UNCHANGED sideVars

\* The same, with the request and its response on record.
ObservedCallback ==
    /\ port = "self"
    /\ \E c \in Codes \cup {None}, e \in Errors \cup {None} :
         /\ Redirect(c, e)
         /\ last' = Handled(c, e, _handle_callback(c, e).status)
    /\ UNCHANGED <<now, loop_time, keyFile, fernet, file, _server, port, pc,
                   start_time, code>>
    /\ UNCHANGED sideVars

\* Variant of CanBind: the handler binds over a listener of its own.
CanBind_over_own == port # "other"

\* _run_server: site.start() binds the port, and raises OSError when the
\* port is taken.
CanBind == port = "free"

\* Variant of LoginStart: the browser is opened whether or not the listener
\* could be bound.
LoginStart_browser_anyway ==
    /\ pc = "idle"
    /\ IF CanBind
       THEN /\ port' = "self"
            /\ _server' = "runner"
       ELSE UNCHANGED <<port, _server>>
    /\ pc' = "open_browser"
    /\ last' = NoCall
    /\ UNCHANGED <<now, loop_time, keyFile, fernet, file, _auth_code, _auth_error,
                   start_time, code, first_redirect>>
    /\ UNCHANGED sideVars

\* login -> wait_for_authorization, up to and including _run_server.
LoginStart ==
    /\ pc = "idle"
    /\ IF CanBind
       THEN /\ port' = "self"
            /\ _server' = "runner"
            /\ pc' = "open_browser"
            /\ last' = NoCall
       ELSE /\ last' = Call("login", Raised("OSError"), NoReq, NoAnswer, NoRedirect)
            /\ UNCHANGED <<port, _server, pc>>
    /\ UNCHANGED <<now, loop_time, keyFile, fernet, file, _auth_code, _auth_error,
                   start_time, code, first_redirect>>
    /\ UNCHANGED sideVars

\* webbrowser.open(auth_url); start_time = loop.time().
OpenBrowser ==
    /\ pc = "open_browser"
    /\ start_time' = loop_time
    /\ pc' = "poll"
    /\ last' = NoCall
    /\ UNCHANGED <<now, loop_time, keyFile, fernet, file, _server, _auth_code,
                   _auth_error, port, code, first_redirect>>
    /\ UNCHANGED sideVars

\* Variant of TimedOut: the difference taken the wrong way round.
TimedOutReversed == start_time - loop_time > Timeout

\* The loop condition of line 116 and the timeout test of line 117.
StillWaiting == _auth_code = None /\ _auth_error = None
TimedOut == loop_time - start_time > Timeout

\* The port after lines 121-122: self._server.cleanup() releases the listener.
Cleanup == IF _server # None /\ port = "self" THEN "free" ELSE port

\* The port when TimeoutError leaves the loop at line 118: nothing runs
\* between the raise and the caller.
TimeoutExit == port

\* One evaluation of the polling loop, up to the next await; when the loop
\* ends, the rest of wait_for_authorization.
Poll ==
    /\ pc = "poll"
    /\ IF StillWaiting
       THEN IF TimedOut
            THEN /\ last' = Call("login", Raised("TimeoutError"), NoReq, NoAnswer,
                                 first_redirect)
                 /\ pc' = "idle"
                 /\ port' = TimeoutExit
                 /\ loop_time' = 0
                 /\ start_time' = 0
                 /\ first_redirect' = NoRedirect
                 /\ UNCHANGED code
            ELSE /\ pc' = "sleep"
                 /\ last' = NoCall
                 /\ UNCHANGED <<port, loop_time, start_time, code, first_redirect>>
       ELSE /\ port' = Cleanup
            /\ loop_time' = 0
            /\ start_time' = 0
            /\ IF _auth_error # None
               THEN /\ last' = Call("login", Raised(_auth_error), NoReq, NoAnswer,
                                    first_redirect)
                    /\ pc' = "idle"
                    /\ first_redirect' = NoRedirect
                    /\ UNCHANGED code
               ELSE /\ code' = _auth_code
                    /\ pc' = "exchange"
                    /\ last' = NoCall
                    /\ UNCHANGED first_redirect
    /\ UNCHANGED <<now, keyFile, fernet, file, _server, _auth_code, _auth_error>>
    /\ UNCHANGED sideVars

\* await asyncio.sleep(0.1) returns.
Wake ==
    /\ pc = "sleep"
    /\ \E d \in 1..MaxSleep : loop_time' = loop_time + d
    /\ pc' = "poll"
    /\ last' = NoCall
    /\ UNCHANGED <<now, keyFile, fernet, file, _server, _auth_code, _auth_error,
                   port, start_time, code, first_redirect>>
    /\ UNCHANGED sideVars

\* exchange_code_for_token: POST grant_type=authorization_code; on a 2xx
\* answer save the body and return it, otherwise raise.
exchange_request(c) == [grant_type |-> "authorization_code", arg |-> c]

\* Variant of exchange_code_for_token: the tokens are returned but not saved.
exchange_code_for_token_unsaved(k, f, ans, t) ==
    IF ans.status = "ok"
    THEN [raised |-> FALSE, tokens |-> Stamp(ans.body, t), file |-> f]
    ELSE [raised |-> TRUE, tokens |-> NoTokens, file |-> f]

\* Variant of exchange_code_for_token: the body is saved before the status
\* is checked.
exchange_code_for_token_save_first(k, f, ans, t) ==
    IF ans.status = "ok"
    THEN [raised |-> FALSE, tokens |-> Stamp(ans.body, t),
          file |-> save_tokens(k, ans.body, t)]
    ELSE [raised |-> TRUE, tokens |-> NoTokens, file |-> save_tokens(k, ans.body, t)]

exchange_code_for_token(k, f, ans, t) ==
    IF ans.status = "ok"
    THEN [raised |-> FALSE, tokens |-> Stamp(ans.body, t),
          file |-> save_tokens(k, ans.body, t)]
    ELSE [raised |-> TRUE, tokens |-> NoTokens, file |-> f]

\* login's return statement: tokens["access_token"].
login_return(tokens) ==
    IF Has(tokens.access_token) THEN Returned(tokens.access_token)
    ELSE Raised("KeyError")

\* The second line of login and its return.
Exchange ==
    /\ pc = "exchange"
    /\ \E ans \in Answers :
         LET r == exchange_code_for_token(fernet, file, ans, now) IN
         /\ file' = r.file
         /\ last' = Call("login",
                         IF r.raised THEN Raised(HTTPStatusError)
                         ELSE login_return(r.tokens),
                         exchange_request(code), ans, first_redirect)
    /\ pc' = "idle"
    /\ code' = None
    /\ first_redirect' = NoRedirect
    /\ UNCHANGED <<now, loop_time, keyFile, fernet, _server, _auth_code,
                   _auth_error, port, start_time>>
    /\ UNCHANGED sideVars

\* ------------------------------------------------------- the environment
\* Another program takes or gives up the callback port.
OtherBinds ==
    /\ port = "free"
    /\ port' = "other"
    /\ last' = NoCall
    /\ UNCHANGED <<now, loop_time, keyFile, fernet, file, _server, _auth_code,
                   _auth_error, pc, start_time, code, first_redirect>>
    /\ UNCHANGED sideVars

OtherReleases ==
    /\ port = "other"
    /\ port' = "free"
    /\ last' = NoCall
    /\ UNCHANGED <<now, loop_time, keyFile, fernet, file, _server, _auth_code,
                   _auth_error, pc, start_time, code, first_redirect>>
    /\ UNCHANGED sideVars

\* The key file is lost.
DeleteKeyFile ==
    /\ keyFile # 0
    /\ fernet < MaxKeys
    /\ keyFile' = 0
    /\ last' = NoCall
    /\ UNCHANGED <<now, fernet, file>>
    /\ UNCHANGED flowVars
    /\ UNCHANGED sideVars

\* The token file's bytes are damaged.
CorruptFile ==
    /\ file.kind = "blob"
    /\ file' = CorruptBlob
    /\ last' = NoCall
    /\ UNCHANGED <<now, keyFile, fernet>>
    /\ UNCHANGED flowVars
    /\ UNCHANGED sideVars

\* The process ends (its sockets are closed) and the next command constructs
\* a new OAuth2Handler: __init__ and TokenStorage.__init__.
Restart ==
    /\ pc = "idle"
    /\ keyFile' = _get_or_create_key(keyFile, fernet)
    /\ fernet' = _get_or_create_key(keyFile, fernet)
    /\ _server' = None
    /\ _auth_code' = None
    /\ _auth_error' = None
    /\ port' = IF port = "self" THEN "free" ELSE port
    /\ last' = NoCall
    /\ UNCHANGED <<now, loop_time, file, pc, start_time, code, first_redirect>>
    /\ UNCHANGED sideVars

Next ==
    \/ GetAccessToken
    \/ Logout
    \/ Tick
    \/ Callback
    \/ LoginStart
    \/ OpenBrowser
    \/ Poll
    \/ Wake
    \/ Exchange
    \/ OtherBinds
    \/ OtherReleases
    \/ DeleteKeyFile
    \/ CorruptFile
    \/ Restart

Spec == Init /\ [][Next]_vars

\* The event loop runs every step of the login coroutine that is ready, and
\* a sleep returns.
LiveSpec ==
    Spec /\ WF_vars(OpenBrowser) /\ WF_vars(Poll) /\ WF_vars(Wake) /\ WF_vars(Exchange)

\* ------------------------------------- the token file, step by step
\* save_tokens as the operating system sees it, with a second process (another
\* ticktask command) reading the same file.  Line 36 stamps the dict, line 38
\* opens the file for writing, which truncates it, and line 39 writes the
\* encrypted bytes, which reach the file when the `with` block closes it.
SaveOpen ==
    /\ writer.pc = "idle"
    /\ \E tokens \in Responses :
         writer' = [pc |-> "opened", tokens |-> tokens, at |-> now, prev |-> file]
    /\ file' = EmptyFile
    /\ UNCHANGED <<now, loop_time, keyFile, fernet, _server, _auth_code, _auth_error,
                   port, pc, start_time, code, first_redirect, last, config,
                   reader, query>>

SaveWrite ==
    /\ writer.pc = "opened"
    /\ file' = save_tokens(fernet, writer.tokens, writer.at)
    /\ writer' = NoWriter
    /\ UNCHANGED <<now, loop_time, keyFile, fernet, _server, _auth_code, _auth_error,
                   port, pc, start_time, code, first_redirect, last, config,
                   reader, query>>

\* load_tokens in the second process, which holds the same key file.
ConcurrentLoad ==
    /\ reader' = [done |-> TRUE, tokens |-> load_tokens(fernet, file),
                  during |-> writer]
    /\ UNCHANGED <<now, loop_time, keyFile, fernet, file, _server, _auth_code,
                   _auth_error, port, pc, start_time, code, first_redirect, last,
                   config, writer, query>>

\* clear_tokens in the writing process, between two saves.
StoreClear ==
    /\ writer.pc = "idle"
    /\ file' = clear_tokens(file)
    /\ UNCHANGED <<now, loop_time, keyFile, fernet, _server, _auth_code, _auth_error,
                   port, pc, start_time, code, first_redirect, last, config,
                   writer, reader, query>>

StoreTick ==
    /\ now < MaxNow
    /\ now' = now + 1
    /\ UNCHANGED <<loop_time, keyFile, fernet, file, _server, _auth_code,
                   _auth_error, port, pc, start_time, code, first_redirect, last,
                   config, writer, reader, query>>

StoreNext ==
    \/ SaveOpen
    \/ SaveWrite
    \/ ConcurrentLoad
    \/ StoreClear
    \/ StoreTick

StoreSpec == Init /\ [][StoreNext]_vars

\* ------------------------------------------------------- the commands
\* The configurations a command can be started with: client_id and
\* client_secret default to the empty string.
Configs == [client_id : {"", "id"}, client_secret : {"", "secret"}]

\* commands/auth.py line 22: `not config.client_id or not config.client_secret`.
MissingCredentials == config.client_id = "" \/ config.client_secret = ""

CliInit ==
    /\ AuthInit
    /\ config \in Configs
    /\ writer = NoWriter
    /\ reader = NoRead
    /\ query = NoQuery

\* `ticktask auth login`: the credential check, then auth_handler.login() up
\* to the start of the listener.
AuthLoginCommand ==
    IF MissingCredentials
    THEN /\ pc = "idle"
         /\ last' = Call("auth login", Returned(None), NoReq, NoAnswer, NoRedirect)
         /\ UNCHANGED <<now, keyFile, fernet, file>>
         /\ UNCHANGED flowVars
         /\ UNCHANGED sideVars
    ELSE LoginStart

\* TickTickClient.connect as get_client's callers run it, with no access
\* token given: get_access_token(), and login() when that returned nothing;
\* login is taken up to the start of the listener.
Connect ==
    /\ pc = "idle"
    /\ \E ans \in Answers :
         LET r == get_access_token(fernet, file, ans, now) IN
         /\ file' = r.file
         /\ IF r.ret.val # None
            THEN /\ last' = Call("connect", r.ret, r.req, r.ans, NoRedirect)
                 /\ UNCHANGED <<port, _server, pc>>
            ELSE IF CanBind
            THEN /\ port' = "self"
                 /\ _server' = "runner"
                 /\ pc' = "open_browser"
                 /\ last' = Call("connect", Returned("pending"), r.req, r.ans,
                                 NoRedirect)
            ELSE /\ last' = Call("connect", Raised("OSError"), r.req, r.ans,
                                 NoRedirect)
                 /\ UNCHANGED <<port, _server, pc>>
    /\ UNCHANGED <<now, loop_time, keyFile, fernet, _auth_code, _auth_error,
                   start_time, code, first_redirect>>
    /\ UNCHANGED sideVars

CliNext ==
    \/ AuthLoginCommand
    \/ Connect
    \/ OpenBrowser
    \/ Poll
    \/ Wake
    \/ Exchange
    \/ ObservedCallback
    \/ Tick
    \/ Restart

CliSpec == CliInit /\ [][CliNext]_vars

\* ------------------------------------------------------- the due filter
\* Calendar days are numbered; a due date is a datetime (a day and a time of
\* day) or None.
MaxTasks == 2
MaxDay == 9
Week == 7
Days == 0..MaxDay
Times == {0, 1}
Todays == {1, 2}
NoDue == [kind |-> "none", day |-> 0, time |-> 0]
DueDates == {NoDue} \cup [kind : {"datetime"}, day : Days, time : Times]
DueFilters == {"today", "tomorrow", "week", "overdue", "someday"}

\* The task lists of up to MaxTasks tasks, each task with its place in the
\* list as its id.
TaskLists ==
    UNION {{[i \in 1..n |-> [id |-> i, due_date |-> d[i]]] : d \in [1..n -> DueDates]}
              : n \in 0..MaxTasks}

\* datetime.date(): the day, without the time of day.
date(d) == d.day

\* Variant of Selected: the week bucket ends before today + 7.
Selected_week_strict(due_filter, task_date, today) ==
    IF due_filter = "today" /\ task_date = today THEN TRUE
    ELSE IF due_filter = "tomorrow" /\ task_date = today + 1 THEN TRUE
    ELSE IF due_filter = "week" /\ task_date < today + Week THEN TRUE
    ELSE IF due_filter = "overdue" /\ task_date < today THEN TRUE
    ELSE FALSE

\* Variant of Selected: a task due today counts as overdue.
Selected_overdue_inclusive(due_filter, task_date, today) ==
    IF due_filter = "today" /\ task_date = today THEN TRUE
    ELSE IF due_filter = "tomorrow" /\ task_date = today + 1 THEN TRUE
    ELSE IF due_filter = "week" /\ task_date <= today + Week THEN TRUE
    ELSE IF due_filter = "overdue" /\ task_date <= today THEN TRUE
    ELSE FALSE

\* The if / elif chain of lines 202-209.
Selected(due_filter, task_date, today) ==
    IF due_filter = "today" /\ task_date = today THEN TRUE
    ELSE IF due_filter = "tomorrow" /\ task_date = today + 1 THEN TRUE
    ELSE IF due_filter = "week" /\ task_date <= today + Week THEN TRUE
    ELSE IF due_filter = "overdue" /\ task_date < today THEN TRUE
    ELSE FALSE

\* The loop of lines 196-209, from task i on, with the list built so far.
RECURSIVE filter_loop(_, _, _, _, _)
filter_loop(tasks, due_filter, today, i, filtered) ==
    IF i > Len(tasks) THEN filtered
    ELSE LET task == tasks[i] IN
         IF task.due_date.kind = "none"
         THEN filter_loop(tasks, due_filter, today, i + 1, filtered)
         ELSE IF Selected(due_filter, date(task.due_date), today)
         THEN filter_loop(tasks, due_filter, today, i + 1, Append(filtered, task))
         ELSE filter_loop(tasks, due_filter, today, i + 1, filtered)

_filter_by_due_date(tasks, due_filter, today) ==
    filter_loop(tasks, due_filter, today, 1, <<>>)

FilterInit ==
    /\ AuthInit
    /\ config = Configured
    /\ writer = NoWriter
    /\ reader = NoRead
    /\ query \in [tasks : TaskLists, today : Todays, due_filter : DueFilters,
                   result : {<<>>}, done : {FALSE}]

\* list_tasks with a due filter: filtered_tasks = _filter_by_due_date(...).
FilterByDue ==
    /\ ~query.done
    /\ query' = [query EXCEPT
                    !.result = _filter_by_due_date(query.tasks, query.due_filter,
                                                   query.today),
                    !.done = TRUE]
    /\ UNCHANGED <<now, loop_time, keyFile, fernet, file, _server, _auth_code,
                   _auth_error, port, pc, start_time, code, first_redirect, last,
                   config, writer, reader>>

FilterNext == FilterByDue

FilterSpec == FilterInit /\ [][FilterNext]_vars

\* ------------------------------------------------------- the daily plan
\* generate_plan, from the concatenated fetches on: the removal of duplicates
\* and the sort.  A task here is its id, its priority and its due date.
MaxPlan == 3
PlanIds == {"t1", "t2", "t3"}
PlanPriorities == {1, 5}
PlanDues ==
    {NoDue, [kind |-> "datetime", day |-> 1, time |-> 1],
     [kind |-> "datetime", day |-> 2, time |-> 0]}
PlanTasks == [id : PlanIds, priority : PlanPriorities, due_date : PlanDues]
PlanLists == UNION {[1..n -> PlanTasks] : n \in 0..MaxPlan}

\* Variant of Unseen: every task counts as not seen before.
Unseen_always(task, seen_ids) == TRUE

\* `task.id not in seen_ids`.
Unseen(task, seen_ids) == task.id \notin seen_ids

\* The loop of lines 74-77, from task i on.
RECURSIVE dedup_loop(_, _, _, _)
dedup_loop(all_tasks, i, seen_ids, unique_tasks) ==
    IF i > Len(all_tasks) THEN unique_tasks
    ELSE LET task == all_tasks[i] IN
         IF Unseen(task, seen_ids)
         THEN dedup_loop(all_tasks, i + 1, seen_ids \cup {task.id},
                         Append(unique_tasks, task))
         ELSE dedup_loop(all_tasks, i + 1, seen_ids, unique_tasks)

remove_duplicates(all_tasks) == dedup_loop(all_tasks, 1, {}, <<>>)

\* datetime.max, and the order of datetimes.
datetime_max == [kind |-> "datetime", day |-> 3652059, time |-> 1]
DatetimeLess(a, b) == a.day < b.day \/ (a.day = b.day /\ a.time < b.time)

\* Variant of sort_key: the priority is not negated.
sort_key_ascending(t) ==
    [priority |-> t.priority,
     due |-> IF t.due_date.kind = "none" THEN datetime_max ELSE t.due_date]

\* The key of lines 80-83: (-(t.priority or 0), t.due_date or datetime.max).
sort_key(t) ==
    [priority |-> 0 - t.priority,
     due |-> IF t.due_date.kind = "none" THEN datetime_max ELSE t.due_date]

\* Tuple comparison of two keys.
KeyLess(a, b) ==
    \/ a.priority < b.priority
    \/ a.priority = b.priority /\ DatetimeLess(a.due, b.due)

\* list.sort is stable: a task goes in front of the first task whose key is
\* greater than its own.
RECURSIVE insert_sorted(_, _)
insert_sorted(sorted, t) ==
    IF sorted = <<>> THEN <<t>>
    ELSE IF KeyLess(sort_key(t), sort_key(Head(sorted)))
    THEN <<t>> \o sorted
    ELSE <<Head(sorted)>> \o insert_sorted(Tail(sorted), t)

RECURSIVE sort_from(_, _, _)
sort_from(tasks, i, sorted) ==
    IF i > Len(tasks) THEN sorted
    ELSE sort_from(tasks, i + 1, insert_sorted(sorted, tasks[i]))

sort(tasks) == sort_from(tasks, 1, <<>>)

PlanInit ==
    /\ AuthInit
    /\ config = Configured
    /\ writer = NoWriter
    /\ reader = NoRead
    /\ query \in [all_tasks : PlanLists, unique_tasks : {<<>>},
                  sorted_tasks : {<<>>}, done : {FALSE}]

\* Lines 71-83 of generate_plan.
GeneratePlan ==
    /\ ~query.done
    /\ query' = [query EXCEPT
                    !.unique_tasks = remove_duplicates(query.all_tasks),
                    !.sorted_tasks = sort(remove_duplicates(query.all_tasks)),
                    !.done = TRUE]
    /\ UNCHANGED <<now, loop_time, keyFile, fernet, file, _server, _auth_code,
                   _auth_error, port, pc, start_time, code, first_redirect, last,
                   config, writer, reader>>

PlanNext == GeneratePlan

PlanSpec == PlanInit /\ [][PlanNext]_vars

\* ------------------------------------------------------------ list_tasks
\* The filters of list_tasks, on the tasks already fetched.  A task here is
\* its id, due date, priority and status; the priority argument is an
\* Optional[int], and 0 is a level of its own.
MaxList == 2
NORMAL == 0
COMPLETED == 2
NoPriority == [given |-> FALSE, level |-> 0]
PriorityArgs == {NoPriority} \cup [given : {TRUE}, level : {0, 5}]
StatusArgs == {None, "open", "completed", "COMPLETED"}
DueArgs == {None, "today", "overdue"}
ListDues ==
    {NoDue, [kind |-> "datetime", day |-> 0, time |-> 1],
     [kind |-> "datetime", day |-> 1, time |-> 0]}
ListLists ==
    UNION {{[i \in 1..n |-> [id |-> i, due_date |-> f[i].due_date,
                             priority |-> f[i].priority, status |-> f[i].status]]
              : f \in [1..n -> [due_date : ListDues, priority : {0, 5},
                                status : {NORMAL, COMPLETED}]]}
              : n \in 0..MaxList}

\* str.lower() on the status arguments.
lower(s) == IF s = "COMPLETED" THEN "completed" ELSE s

\* Variant of by_priority: tasks of the level or above pass.
by_priority_at_least(tasks, priority) ==
    SelectSeq(tasks, LAMBDA t : t.priority >= priority)

\* [t for t in filtered_tasks if t.priority == priority]
by_priority(tasks, priority) ==
    SelectSeq(tasks, LAMBDA t : t.priority = priority)

\* Lines 88-92: the status filter.
by_status(tasks, status) ==
    IF lower(status) = "completed"
    THEN SelectSeq(tasks, LAMBDA t : t.status = COMPLETED)
    ELSE IF lower(status) = "open"
    THEN SelectSeq(tasks, LAMBDA t : t.status = NORMAL)
    ELSE tasks

\* Variant of apply_filters: the filtered list is deduplicated by id.
apply_filters_unique(all_tasks, due_filter, priority, status, today) ==
    LET by_due == IF due_filter # None
                  THEN _filter_by_due_date(all_tasks, due_filter, today)
                  ELSE all_tasks
        by_prio == IF priority.given THEN by_priority(by_due, priority.level)
                   ELSE by_due
    IN remove_duplicates(IF status # None THEN by_status(by_prio, status)
                         ELSE by_prio)

\* Lines 77-95 of list_tasks.
apply_filters(all_tasks, due_filter, priority, status, today) ==
    LET by_due == IF due_filter # None
                  THEN _filter_by_due_date(all_tasks, due_filter, today)
                  ELSE all_tasks
        by_prio == IF priority.given THEN by_priority(by_due, priority.level)
                   ELSE by_due
    IN IF status # None THEN by_status(by_prio, status) ELSE by_prio

ListInit ==
    /\ AuthInit
    /\ config = Configured
    /\ writer = NoWriter
    /\ reader = NoRead
    /\ query \in [tasks : ListLists, today : {1}, due_filter : DueArgs,
                  priority : PriorityArgs, status : StatusArgs,
                  result : {<<>>}, done : {FALSE}]

ListTasks ==
    /\ ~query.done
    /\ query' = [query EXCEPT
                    !.result = apply_filters(query.tasks, query.due_filter,
                                             query.priority, query.status,
                                             query.today),
                    !.done = TRUE]
    /\ UNCHANGED <<now, loop_time, keyFile, fernet, file, _server, _auth_code,
                   _auth_error, port, pc, start_time, code, first_redirect, last,
                   config, writer, reader>>

ListNext == ListTasks

ListSpec == ListInit /\ [][ListNext]_vars

\* ------------------------------------------------------------ _parse_date
\* The calendar: days are numbered from 1, day 1 being Monday the first of
\* January of a year of 365 days, and the years that follow have 365 days.
MonthLengths == <<31, 28, 31, 30, 31, 30, 31, 31, 30, 31, 30, 31>>

RECURSIVE DaysBefore(_)
DaysBefore(month) ==
    IF month = 1 THEN 0 ELSE DaysBefore(month - 1) + MonthLengths[month - 1]

DaysInYear == DaysBefore(12) + MonthLengths[12]

\* date.year (counted from 0), date.month, date.day and date.weekday().
year(ord) == (ord - 1) \div DaysInYear
DayOfYear(ord) == ((ord - 1) % DaysInYear) + 1
month(ord) ==
    CHOOSE m \in 1..12 :
        /\ DaysBefore(m) < DayOfYear(ord)
        /\ DayOfYear(ord) <= DaysBefore(m) + MonthLengths[m]
day(ord) == DayOfYear(ord) - DaysBefore(month(ord))
weekday(ord) == (ord - 1) % 7

\* A datetime, and an exception leaving _parse_date.
Datetime(ord, hour, minute, second, microsecond) ==
    [kind |-> "datetime", exc |-> None, ord |-> ord, hour |-> hour,
     minute |-> minute, second |-> second, microsecond |-> microsecond]
Raise(exc) ==
    [kind |-> "raise", exc |-> exc, ord |-> 0, hour |-> 0, minute |-> 0,
     second |-> 0, microsecond |-> 0]

\* dt + timedelta(days=n), and dt.replace(hour=23, minute=59, second=59),
\* which keeps the microsecond.
plus_days(dt, n) == [dt EXCEPT !.ord = @ + n]
end_of_day(dt) == [dt EXCEPT !.hour = 23, !.minute = 59, !.second = 59]

\* Lines 137-140: now.replace(month=now.month + 1, ...), or the January of
\* the next year; datetime.replace raises ValueError when the month has no
\* such day.
next_month(dt) ==
    IF month(dt.ord) = 12
    THEN end_of_day([dt EXCEPT !.ord = (year(dt.ord) + 1) * DaysInYear + day(dt.ord)])
    ELSE IF day(dt.ord) > MonthLengths[month(dt.ord) + 1]
    THEN Raise("ValueError(day is out of range for month)")
    ELSE end_of_day([dt EXCEPT !.ord = @ + MonthLengths[month(dt.ord)]])

\* A date string: what it says (a keyword, "in <n> <unit>", "next <weekday>",
\* a calendar date with or without a time of day, or something else), and
\* how it is written: in upper case, with white space before or after.
MaxAmount == 2
Keywords == {"today", "tomorrow", "yesterday", "next week", "next month"}
Units == {"day", "days", "week", "weeks", "month", "months"}
Weekdays ==
    {"monday", "tuesday", "wednesday", "thursday", "friday", "saturday", "sunday"}
Keyword(w) == [kind |-> "keyword", word |-> w, n |-> 0]
InPhrase(n, unit) == [kind |-> "in", word |-> unit, n |-> n]
NextPhrase(w) == [kind |-> "next", word |-> w, n |-> 0]
DatePhrase(ord, clock) == [kind |-> "date", word |-> clock, n |-> ord]
Texts ==
    {Keyword(w) : w \in Keywords}
        \cup {InPhrase(n, u) : n \in 0..MaxAmount, u \in Units}
        \cup {NextPhrase(w) : w \in Weekdays}
        \cup {DatePhrase(40, c) : c \in {"", "10:00"}}
        \cup {[kind |-> "other", word |-> "someday soon", n |-> 0]}
Written(text, upper, lead, trail) ==
    [text |-> text, upper |-> upper, lead |-> lead, trail |-> trail]
Plain(text) == Written(text, FALSE, FALSE, FALSE)
DateStrings ==
    {Plain(t) : t \in Texts}
        \cup {Written(t, TRUE, FALSE, FALSE) : t \in Texts}
        \cup {Written(t, TRUE, TRUE, TRUE) : t \in Texts}

\* The values of datetime.now(): every day of the first year, at midnight
\* sharp and at a time with every field set.
Nows ==
    {Datetime(d, 0, 0, 0, 0) : d \in 1..DaysInYear}
        \cup {Datetime(d, 10, 30, 15, 7) : d \in 1..DaysInYear}

\* Variant of normalise: the case is folded, the white space stays.
normalise_no_strip(date_str) == [date_str EXCEPT !.upper = FALSE]

\* date_str.lower().strip()
normalise(date_str) ==
    [date_str EXCEPT !.upper = FALSE, !.lead = FALSE, !.trail = FALSE]

\* re.match of the two patterns: lower-case words from the first character.
in_pattern(s) == ~s.upper /\ ~s.lead /\ s.text.kind = "in"
weekday_pattern(s) == ~s.upper /\ ~s.lead /\ s.text.kind = "next"

\* The dict of lines 158-161.
target_weekday(w) ==
    CASE w = "monday" -> 0 [] w = "tuesday" -> 1 [] w = "wednesday" -> 2
      [] w = "thursday" -> 3 [] w = "friday" -> 4 [] w = "saturday" -> 5
      [] w = "sunday" -> 6

\* Variant of days_ahead: only a weekday that is past is moved a week on.
days_ahead_or_today(target, current) ==
    IF target - current < 0 THEN target - current + 7 ELSE target - current

\* Lines 163-165.
days_ahead(target, current) ==
    IF target - current <= 0 THEN target - current + 7 ELSE target - current

\* dateutil's parser.parse: a calendar date gives that date at the time
\* written, midnight when none is; anything else raises.
date_parser_parse(s) ==
    IF ~s.upper /\ ~s.lead /\ ~s.trail /\ s.text.kind = "date"
    THEN IF s.text.word = "" THEN Datetime(s.text.n, 0, 0, 0, 0)
         ELSE Datetime(s.text.n, 10, 0, 0, 0)
    ELSE Raise("ParserError")

_parse_date(date_str, dt_now) ==
    LET s == normalise(date_str) IN
    IF s = Plain(Keyword("today")) THEN end_of_day(dt_now)
    ELSE IF s = Plain(Keyword("tomorrow")) THEN end_of_day(plus_days(dt_now, 1))
    ELSE IF s = Plain(Keyword("yesterday")) THEN end_of_day(plus_days(dt_now, 0 - 1))
    ELSE IF s = Plain(Keyword("next week")) THEN end_of_day(plus_days(dt_now, 7))
    ELSE IF s = Plain(Keyword("next month")) THEN next_month(dt_now)
    ELSE IF in_pattern(s)
    THEN IF s.text.word \in {"day", "days"}
         THEN end_of_day(plus_days(dt_now, s.text.n))
         ELSE IF s.text.word \in {"week", "weeks"}
         THEN end_of_day(plus_days(dt_now, 7 * s.text.n))
         ELSE end_of_day(plus_days(dt_now, s.text.n * 30))
    ELSE IF weekday_pattern(s)
    THEN end_of_day(plus_days(dt_now,
                              days_ahead(target_weekday(s.text.word),
                                         weekday(dt_now.ord))))
    ELSE LET parsed == date_parser_parse(s) IN
         IF parsed.kind = "raise" THEN Raise("ValueError(Could not parse date)")
         ELSE IF parsed.hour = 0 /\ parsed.minute = 0 THEN end_of_day(parsed)
         ELSE parsed

NoResult == Raise("not called")

DateInit ==
    /\ AuthInit
    /\ config = Configured
    /\ writer = NoWriter
    /\ reader = NoRead
    /\ query \in [date_str : DateStrings, now : Nows, result : {NoResult},
                  done : {FALSE}]

\* create_task / update_task: due_date = self._parse_date(due).
ParseDate ==
    /\ ~query.done
    /\ query' = [query EXCEPT !.result = _parse_date(query.date_str, query.now),
                              !.done = TRUE]
    /\ UNCHANGED <<now, loop_time, keyFile, fernet, file, _server, _auth_code,
                   _auth_error, port, pc, start_time, code, first_redirect, last,
                   config, writer, reader>>

DateNext == ParseDate

DateSpec == DateInit /\ [][DateNext]_vars

\* --------------------------------------------------------------- the Task
\* The Task model, for the fields id, project_id, title, content, is_all_day,
\* due_date, priority and status.  The keyword arguments of the constructor
\* are given by field name; an argument with a default that is not None may
\* be left out.
NONE == 0
FieldNames ==
    {"id", "project_id", "title", "content", "is_all_day", "due_date", "priority",
     "status"}
Unset(val) == [given |-> FALSE, val |-> val]
Given(val) == [given |-> TRUE, val |-> val]
TaskArgs ==
    [id : {None, "test123"},
     project_id : {"project123"},
     title : {"Test Task"},
     content : {None, "Test content"},
     is_all_day : {Unset(TRUE), Given(TRUE), Given(FALSE)},
     due_date : {NoDue, [kind |-> "datetime", day |-> 75, time |-> 1]},
     priority : {Unset(NONE)} \cup {Given(p) : p \in {0, 1, 3, 5}},
     status : {Unset(NORMAL), Given(NORMAL), Given(COMPLETED)}]

\* Task(**kwargs): the declared default where an argument is left out.
Task(kwargs) ==
    [id |-> kwargs.id,
     project_id |-> kwargs.project_id,
     title |-> kwargs.title,
     content |-> kwargs.content,
     is_all_day |-> IF kwargs.is_all_day.given THEN kwargs.is_all_day.val ELSE TRUE,
     due_date |-> kwargs.due_date,
     priority |-> IF kwargs.priority.given THEN kwargs.priority.val ELSE NONE,
     status |-> IF kwargs.status.given THEN kwargs.status.val ELSE NORMAL]

\* Variant of alias: every field is serialized under its own name.
alias_by_name(field) == field

\* Field(alias=...): the wire name of a field.
alias(field) ==
    CASE field = "project_id" -> "projectId"
      [] field = "is_all_day" -> "isAllDay"
      [] field = "due_date" -> "dueDate"
      [] OTHER -> field

\* The value of a field is None.
IsNone(task, field) ==
    CASE field \in {"id", "content"} -> task[field] = None
      [] field = "due_date" -> task[field].kind = "none"
      [] OTHER -> FALSE

\* task.model_dump(by_alias=True, exclude_none=True)
model_dump(task) ==
    LET kept == {f \in FieldNames : ~IsNone(task, f)} IN
    [a \in {alias(f) : f \in kept} |-> task[CHOOSE f \in kept : alias(f) = a]]

TaskInit ==
    /\ AuthInit
    /\ config = Configured
    /\ writer = NoWriter
    /\ reader = NoRead
    /\ query \in [kwargs : TaskArgs, task : {<<>>}, data : {<<>>}, done : {FALSE}]

\* task = Task(...); data = task.model_dump(by_alias=True, exclude_none=True)
BuildAndDump ==
    /\ ~query.done
    /\ query' = [query EXCEPT !.task = Task(query.kwargs),
                              !.data = model_dump(Task(query.kwargs)),
                              !.done = TRUE]
    /\ UNCHANGED <<now, loop_time, keyFile, fernet, file, _server, _auth_code,
                   _auth_error, port, pc, start_time, code, first_redirect, last,
                   config, writer, reader>>

TaskNext == BuildAndDump

TaskSpec == TaskInit /\ [][TaskNext]_vars

\* list_tasks on fetched lists in which a task may occur more than once (the
\* same id, the same record), as overlapping fetches produce them.
RepeatLists ==
    UNION {[1..n -> [id : {1, 2}, due_date : ListDues, priority : {0, 5},
                     status : {NORMAL}]] : n \in 0..MaxList}

RepeatInit ==
    /\ AuthInit
    /\ config = Configured
    /\ writer = NoWriter
    /\ reader = NoRead
    /\ query \in [tasks : RepeatLists, today : {1}, due_filter : DueArgs,
                  priority : PriorityArgs, status : StatusArgs,
                  result : {<<>>}, done : {FALSE}]

RepeatSpec == RepeatInit /\ [][ListTasks]_vars

\* ---------------------------------------------------------- batch_complete
\* The pairs to complete, and for each the fate of its request: the POST to
\* project/<project_id>/task/<task_id>/complete goes through or raises.
MaxBatch == 3
BatchPairs == {<<"p1", "t1">>, <<"p1", "t2">>, <<"p2", "t3">>}

\* complete_task(task_id, project_id): the request sent.
complete_task(task_id, project_id) == [project_id |-> project_id, task_id |-> task_id]

\* Variant of batch_loop: the first failure ends the loop.
RECURSIVE batch_loop_until_failure(_, _, _, _, _)
batch_loop_until_failure(task_ids, outcomes, i, completed, requests) ==
    IF i > Len(task_ids)
    THEN [completed |-> completed, requests |-> requests, raised |-> FALSE]
    ELSE LET request == complete_task(task_ids[i][2], task_ids[i][1]) IN
         IF outcomes[i] = "ok"
         THEN batch_loop_until_failure(task_ids, outcomes, i + 1, completed + 1,
                                       Append(requests, request))
         ELSE [completed |-> completed, requests |-> Append(requests, request),
               raised |-> FALSE]

\* The loop of lines 113-118, from pair i on.
RECURSIVE batch_loop(_, _, _, _, _)
batch_loop(task_ids, outcomes, i, completed, requests) ==
    IF i > Len(task_ids)
    THEN [completed |-> completed, requests |-> requests, raised |-> FALSE]
    ELSE LET request == complete_task(task_ids[i][2], task_ids[i][1]) IN
         IF outcomes[i] = "ok"
         THEN batch_loop(task_ids, outcomes, i + 1, completed + 1,
                         Append(requests, request))
         ELSE batch_loop(task_ids, outcomes, i + 1, completed,
                         Append(requests, request))

batch_complete(task_ids, outcomes) == batch_loop(task_ids, outcomes, 1, 0, <<>>)

BatchInit ==
    /\ AuthInit
    /\ config = Configured
    /\ writer = NoWriter
    /\ reader = NoRead
    /\ \E n \in 0..MaxBatch :
         query \in [task_ids : [1..n -> BatchPairs],
                    outcomes : [1..n -> {"ok", "fail"}],
                    returned : {batch_loop(<<>>, <<>>, 1, 0, <<>>)},
                    done : {FALSE}]

\* completed = await task_manager.batch_complete(task_ids)
BatchComplete ==
    /\ ~query.done
    /\ query' = [query EXCEPT
                    !.returned = batch_complete(query.task_ids, query.outcomes),
                    !.done = TRUE]
    /\ UNCHANGED <<now, loop_time, keyFile, fernet, file, _server, _auth_code,
                   _auth_error, port, pc, start_time, code, first_redirect, last,
                   config, writer, reader>>

BatchSpec == BatchInit /\ [][BatchComplete]_vars

\* ------------------------------------------- the state parameter of a callback
\* get_authorization_url(state): the query parameters of the URL the browser
\* is sent to.
get_authorization_url(state) ==
    [client_id |-> config.client_id, scope |-> "tasks:write tasks:read",
     state |-> state, redirect_uri |-> "http://localhost:8080/callback",
     response_type |-> "code"]

\* The state values a callback request may carry: the one of the URL of
\* line 111 or another one (None when the parameter is missing).
States == {get_authorization_url("random_state").state, "forged"}

\* Variant of handle_request: a request whose state is not the one sent is
\* answered 400 and records nothing.
handle_request_checking_state(q) ==
    IF q.state # get_authorization_url("random_state").state
    THEN [code |-> _auth_code, error |-> _auth_error, status |-> 400]
    ELSE _handle_callback(q.code, q.error)

\* _handle_callback on a request with query parameters q: lines 82-83 read
\* the parameters code and error, and no other.
handle_request(q) == _handle_callback(q.code, q.error)

NoRequest == [code |-> None, error |-> None, state |-> None]

StateInit ==
    /\ AuthInit
    /\ config = Configured
    /\ writer = NoWriter
    /\ reader = NoRead
    /\ query = [url |-> get_authorization_url("random_state"),
                request |-> NoRequest, status |-> 0, requests |-> 0]

\* A callback request, with any state parameter, reaches the listener this
\* handler has bound.
HandleRequest ==
    /\ port = "self"
    /\ \E c \in Codes \cup {None}, e \in Errors \cup {None}, s \in States \cup {None} :
         LET q == [code |-> c, error |-> e, state |-> s]
             r == handle_request(q)
         IN /\ _auth_code' = r.code
            /\ _auth_error' = r.error
            /\ first_redirect' =
                  IF pc # "idle" /\ first_redirect = NoRedirect
                     /\ (c # None \/ e # None)
                  THEN [code |-> r.code, error |-> r.error]
                  ELSE first_redirect
            /\ query' = [query EXCEPT !.request = q, !.status = r.status,
                                      !.requests = (query.requests + 1) % 2]
    /\ last' = NoCall
    /\ UNCHANGED <<now, loop_time, keyFile, fernet, file, _server, port, pc,
                   start_time, code, config, writer, reader>>

StateNext ==
    \/ LoginStart
    \/ OpenBrowser
    \/ HandleRequest
    \/ Poll
    \/ Wake
    \/ Exchange

StateSpec == StateInit /\ [][StateNext]_vars

\* ------------------------------------------------------------ TickTickClient
\* The client object is `query`: its access_token and _client (the bearer
\* token of the headers the httpx client was built with, None when there is
\* no client), whether it was given an auth_handler, where its connect is
\* (idle, or awaiting login), the operation it last ran or is running, that
\* operation's outcome, and the bearer token of the request that operation
\* sent (None when it sent none).
ClientTokens == {None, "A1"}
Clients ==
    [access_token : ClientTokens, auth_handler : BOOLEAN, _client : {None},
     pc : {"idle"}, caller : {"none"}, ret : {Returned(None)}, sent : {None}]

\* Variant of NeedsHandler: the handler is asked whenever there is one.
NeedsHandler_always(client) == client.auth_handler

\* Line 26: `not self.access_token and self.auth_handler`.
NeedsHandler(client) == client.access_token = None /\ client.auth_handler

\* Lines 31-38: raise ValueError without a token, else build the client.
connect_end(client) ==
    IF client.access_token = None
    THEN [client EXCEPT !.ret = Raised("ValueError"), !.pc = "idle"]
    ELSE [client EXCEPT !._client = client.access_token, !.ret = Returned(None),
                        !.pc = "idle"]

\* The end of connect and, in get/post/delete, the request that follows
\* _ensure_client when connect did not raise.
finish(client) ==
    LET c == connect_end(client) IN
    IF c.caller = "request" /\ c.ret.kind = "return"
    THEN [c EXCEPT !.sent = c._client]
    ELSE c

\* connect, entered by `caller`, up to its first suspension: the end of
\* connect, or the start of the listener of login.
connect(caller) ==
    LET client == [query EXCEPT !.caller = caller, !.sent = None,
                                !.ret = Returned(None)]
    IN
    IF ~NeedsHandler(client)
    THEN /\ query' = finish(client)
         /\ last' = NoCall
         /\ UNCHANGED <<file, port, _server, pc>>
    ELSE \E ans \in Answers :
         LET r == get_access_token(fernet, file, ans, now) IN
         /\ file' = r.file
         /\ IF r.ret.kind = "raise"
            THEN /\ query' = [client EXCEPT !.ret = r.ret]
                 /\ last' = Call("get_access_token", r.ret, r.req, r.ans, NoRedirect)
                 /\ UNCHANGED <<port, _server, pc>>
            ELSE IF r.ret.val # None
            THEN /\ query' = finish([client EXCEPT !.access_token = r.ret.val])
                 /\ last' = Call("get_access_token", r.ret, r.req, r.ans, NoRedirect)
                 /\ UNCHANGED <<port, _server, pc>>
            ELSE IF CanBind
            THEN /\ query' = [client EXCEPT !.pc = "login"]
                 /\ last' = Call("get_access_token", r.ret, r.req, r.ans, NoRedirect)
                 /\ port' = "self"
                 /\ _server' = "runner"
                 /\ pc' = "open_browser"
            ELSE /\ query' = [client EXCEPT !.ret = Raised("OSError")]
                 /\ last' = Call("login", Raised("OSError"), NoReq, NoAnswer,
                                 NoRedirect)
                 /\ UNCHANGED <<port, _server, pc>>

ClientInit ==
    /\ AuthInit
    /\ config = Configured
    /\ writer = NoWriter
    /\ reader = NoRead
    /\ query \in Clients

\* TickTickClient(access_token, auth_handler): another client object over the
\* same token file.
NewClient ==
    /\ query.pc = "idle"
    /\ pc = "idle"
    /\ query' \in Clients
    /\ last' = NoCall
    /\ UNCHANGED <<now, loop_time, keyFile, fernet, file, _server, _auth_code,
                   _auth_error, port, pc, start_time, code, first_redirect,
                   config, writer, reader>>

\* await client.connect()
ClientConnect ==
    /\ query.pc = "idle"
    /\ pc = "idle"
    /\ connect("connect")
    /\ UNCHANGED <<now, loop_time, keyFile, fernet, _auth_code, _auth_error,
                   start_time, code, first_redirect, config, writer, reader>>

\* get, post, delete: _ensure_client, then the request.
Request ==
    /\ query.pc = "idle"
    /\ pc = "idle"
    /\ IF query._client = None
       THEN connect("request")
       ELSE /\ query' = [query EXCEPT !.caller = "request", !.sent = query._client,
                                      !.ret = Returned(None)]
            /\ last' = NoCall
            /\ UNCHANGED <<file, port, _server, pc>>
    /\ UNCHANGED <<now, loop_time, keyFile, fernet, _auth_code, _auth_error,
                   start_time, code, first_redirect, config, writer, reader>>

\* login has returned or raised: connect goes on from line 29.
ConnectFinish ==
    /\ query.pc = "login"
    /\ pc = "idle"
    /\ last.op = "login"
    /\ query' = IF last.ret.kind = "raise"
                THEN [query EXCEPT !.ret = last.ret, !.pc = "idle"]
                ELSE finish([query EXCEPT !.access_token = last.ret.val])
    /\ last' = NoCall
    /\ UNCHANGED <<now, loop_time, keyFile, fernet, file, _server, _auth_code,
                   _auth_error, port, pc, start_time, code, first_redirect,
                   config, writer, reader>>

\* await client.close()
Close ==
    /\ query.pc = "idle"
    /\ pc = "idle"
    /\ query' = [query EXCEPT !._client = None, !.caller = "close", !.sent = None,
                              !.ret = Returned(None)]
    /\ last' = NoCall
    /\ UNCHANGED <<now, loop_time, keyFile, fernet, file, _server, _auth_code,
                   _auth_error, port, pc, start_time, code, first_redirect,
                   config, writer, reader>>

\* A redirect, at any time but between the return of login and line 29,
\* where nothing else runs.
ClientCallback ==
    /\ ~(query.pc = "login" /\ pc = "idle")
    /\ Callback

ClientNext ==
    \/ NewClient
    \/ ClientConnect
    \/ Request
    \/ ConnectFinish
    \/ Close
    \/ ClientCallback
    \/ OpenBrowser
    \/ Poll
    \/ Wake
    \/ Exchange

ClientSpec == ClientInit /\ [][ClientNext]_vars

\* ------------------------------------------------------------- properties
\* The record the handler reads from the token file now, and the one the
\* call that just completed found (NoTokens when there is none it can read).
Stored == load_tokens(fernet, file)
Found == load_tokens(fernet, last.pre)
Age(tokens) == now - fromisoformat(tokens.saved_at)

\* What a get_access_token issued in the current state does, for each answer
\* the endpoint could give.
NextLookups == {get_access_token(fernet, file, a, now) : a \in Answers}

\* C1: when the stored record is older than one hour, has a refresh token and
\* the token endpoint answers the refresh with a new access token,
\* get_access_token returns that token, the store then holds the answer
\* stamped with the current time, and a get_access_token that follows
\* immediately returns the same token without a request.
C1_RefreshStoresNewToken ==
    (/\ last.op = "get_access_token"
     /\ Found # NoTokens
     /\ Age(Found) > Hour
     /\ Has(Found.refresh_token)
     /\ last.ans.status = "ok")
    => /\ last.ret = Returned(last.ans.body.access_token)
       /\ last.req = refresh_request(Found.refresh_token)
       /\ Stored = Stamp(last.ans.body, now)
       /\ \A r \in NextLookups :
            r.ret = Returned(last.ans.body.access_token) /\ r.req = NoReq

C1_Witness ==
    /\ last.op = "get_access_token"
    /\ Found # NoTokens
    /\ Found.access_token = "A1"
    /\ Age(Found) > Hour
    /\ last.ans.status = "ok"
    /\ last.ret = Returned("A2")
    /\ Stored.access_token = "A2"

\* C2 as stated: get_access_token returns the cached token when the record's
\* age is below one hour, and sends a refresh request whenever the age is one
\* hour or more (exactly one hour included) and the record has a refresh token.
C2_RefreshFromOneHour ==
    (last.op = "get_access_token" /\ Found # NoTokens)
    => /\ Age(Found) < Hour
          => last.ret = Returned(Found.access_token) /\ last.req = NoReq
       /\ (Age(Found) >= Hour /\ Has(Found.refresh_token))
          => last.req = refresh_request(Found.refresh_token)

\* C2 amended: get_access_token returns the cached token when the record's
\* age is below one hour, and sends a refresh request whenever the age is
\* more than one hour and the record has a refresh token; at an age of
\* exactly one hour it sends none.
C2_RefreshAfterOneHour ==
    (last.op = "get_access_token" /\ Found # NoTokens)
    => /\ Age(Found) < Hour
          => last.ret = Returned(Found.access_token) /\ last.req = NoReq
       /\ (Age(Found) > Hour /\ Has(Found.refresh_token))
          => last.req = refresh_request(Found.refresh_token)
       /\ Age(Found) = Hour => last.req = NoReq

C2_Witness ==
    /\ last.op = "get_access_token"
    /\ Found # NoTokens
    /\ Has(Found.refresh_token)
    /\ Age(Found) = Hour + 1
    /\ last.req = refresh_request(Found.refresh_token)

\* C3: whenever a record is present and its age is at most one hour (one hour
\* included), get_access_token returns the stored access token, sends no
\* request to the token endpoint and leaves the token file, saved_at
\* included, as it was.
C3_CacheHitChangesNothing ==
    (last.op = "get_access_token" /\ Found # NoTokens /\ Age(Found) <= Hour)
    => /\ last.ret = Returned(Found.access_token)
       /\ last.req = NoReq
       /\ file = last.pre

C3_Witness ==
    /\ last.op = "get_access_token"
    /\ Found # NoTokens
    /\ Age(Found) = Hour
    /\ last.ret = Returned("A1")
    /\ file = last.pre

\* C4: when the stored record is older than one hour, has a refresh token and
\* the refresh request fails, get_access_token returns None, raises nothing,
\* and the token file is what it was before the call.
C4_FailedRefreshReturnsNone ==
    (/\ last.op = "get_access_token"
     /\ Found # NoTokens
     /\ Age(Found) > Hour
     /\ Has(Found.refresh_token)
     /\ last.ans.status = "error")
    => /\ last.ret = Returned(None)
       /\ file = last.pre

C4_Witness ==
    /\ last.op = "get_access_token"
    /\ Found # NoTokens
    /\ Age(Found) > Hour
    /\ last.req = refresh_request("R1")
    /\ last.ans.status = "error"
    /\ last.ret = Returned(None)

\* C5: logout returns normally and leaves no token file, whether or not one
\* existed; while there is no token file get_access_token returns None
\* without a request; and a token file appears again only by a login whose
\* code exchange succeeded or by a refresh that succeeded.
C5_LoggedOut ==
    /\ last.op = "logout" => (file = NoFile /\ last.ret = Returned(None))
    /\ file = NoFile
       => \A r \in NextLookups :
            r.ret = Returned(None) /\ r.req = NoReq /\ r.file = NoFile

C5_WrittenOnlyBySuccess ==
    (file = NoFile /\ file' # NoFile)
    => /\ last'.op \in {"login", "get_access_token"}
       /\ last'.req.grant_type \in {"authorization_code", "refresh_token"}
       /\ last'.ans.status = "ok"

C5_LogoutUntilNextWrite == [](C5_LoggedOut) /\ [][C5_WrittenOnlyBySuccess]_vars

C5_Witness ==
    /\ last.op = "logout"
    /\ last.pre.kind = "blob"
    /\ file = NoFile

\* C6 as stated: the listener started by wait_for_authorization is stopped on
\* every exit path of the wait (code, provider error, timeout), so once the
\* wait has ended this handler holds no listener on the callback port.
C6_ListenerStoppedOnEveryExit ==
    pc \in {"idle", "exchange"} => port # "self"

\* wait_for_authorization is running.
Waiting == pc \in {"open_browser", "poll", "sleep"}

\* C7, the steps: a poll that finds a code or an error recorded ends the wait
\* at once, returning the code or raising the authorization error; a poll
\* that finds neither and the elapsed time above the timeout raises
\* TimeoutError; only a poll that finds neither and the time not exceeded
\* goes on waiting.
C7_PollStep ==
    (pc = "poll" /\ pc' # "poll")
    => IF _auth_error # None
       THEN pc' = "idle" /\ last'.ret = Raised(_auth_error)
       ELSE IF _auth_code # None
       THEN pc' = "exchange" /\ code' = _auth_code
       ELSE IF loop_time - start_time > Timeout
       THEN pc' = "idle" /\ last'.ret = Raised("TimeoutError")
       ELSE pc' = "sleep"

\* C7: wait_for_authorization always terminates, and does so by the steps
\* above: as soon as a poll finds a code or an error, and otherwise at the
\* first poll after the elapsed time exceeds the timeout.
C7_WaitTerminates == (Waiting ~> ~Waiting) /\ [][C7_PollStep]_vars

C7_Witness ==
    /\ last.op = "login"
    /\ last.ret = Raised("TimeoutError")
    /\ last.first = NoRedirect
    /\ _auth_code = None
    /\ _auth_error = None

\* C8 as stated: when several redirects reach the handler during one wait,
\* the first one wins: the code and error it recorded stay as they are under
\* every later redirect, and they are the outcome the wait returns or raises.
C8_FirstRedirectWins ==
    /\ (Waiting /\ first_redirect # NoRedirect)
       => (_auth_code = first_redirect.code /\ _auth_error = first_redirect.error)
    /\ (pc = "exchange" /\ first_redirect # NoRedirect)
       => (first_redirect.error = None /\ code = first_redirect.code)
    /\ (last.op = "login" /\ last.first # NoRedirect /\ last.req = NoReq)
       => last.ret = Raised(last.first.error)

\* C9 as stated: the recorded authorization code and the recorded
\* authorization error are never both set.
C9_CodeAndErrorExclusive ==
    ~(_auth_code # None /\ _auth_error # None)

\* C10, the order of the phases: login moves from idle to the wait, from the
\* wait to the exchange or back to idle, and from the exchange to idle; the
\* exchange is entered only with a code the callback captured, and a request
\* to the token endpoint made by login is made in the exchange, with that code.
C10_PhaseStep ==
    /\ pc' # pc
       => \/ pc = "idle" /\ pc' = "open_browser"
          \/ pc = "open_browser" /\ pc' = "poll"
          \/ pc = "poll" /\ pc' \in {"sleep", "exchange", "idle"}
          \/ pc = "sleep" /\ pc' = "poll"
          \/ pc = "exchange" /\ pc' = "idle"
    /\ (pc # "exchange" /\ pc' = "exchange")
       => (_auth_code \in Codes /\ code' = _auth_code)
    /\ (last'.op = "login" /\ last'.req # NoReq)
       => (pc = "exchange" /\ code \in Codes /\ last'.req = exchange_request(code))

\* C10, the result: login returns an access token only when the token
\* endpoint answered the exchange with it, and then the token file holds the
\* answer, stamped with the current time.
C10_LoginResult ==
    (last.op = "login" /\ last.ret.kind = "return")
    => /\ last.req.grant_type = "authorization_code"
       /\ last.ans.status = "ok"
       /\ last.ret.val = last.ans.body.access_token
       /\ Stored = Stamp(last.ans.body, now)
       /\ Stored.access_token = last.ret.val

\* C10: login follows Idle -> AwaitingCallback -> Exchanging -> Authenticated.
C10_LoginOrder == [](C10_LoginResult) /\ [][C10_PhaseStep]_vars

C10_Witness ==
    /\ last.op = "login"
    /\ last.ret = Returned("A1")
    /\ last.req = exchange_request("c1")
    /\ Stored.access_token = "A1"

\* C11, the steps: a login that ends on a provider error, on a timeout or on
\* a failed exchange raises that failure; on the first two it has sent no
\* request to the token endpoint; and no step of login other than a
\* successful exchange changes the token file.
C11_LoginStep ==
    /\ (pc = "poll" /\ pc' # pc /\ _auth_error # None)
       => (/\ last'.op = "login"
           /\ last'.ret = Raised(_auth_error)
           /\ last'.req = NoReq)
    /\ (/\ pc = "poll" /\ pc' # pc
        /\ _auth_error = None /\ _auth_code = None
        /\ loop_time - start_time > Timeout)
       => (/\ last'.op = "login"
           /\ last'.ret = Raised("TimeoutError")
           /\ last'.req = NoReq)
    /\ (pc = "exchange" /\ pc' # pc /\ last'.ans.status = "error")
       => (last'.op = "login" /\ last'.ret = Raised(HTTPStatusError))
    /\ ((pc' # pc \/ last'.op = "login")
        /\ ~(pc = "exchange" /\ last'.ans.status = "ok"))
       => file' = file

\* C11: whenever login fails the failure is raised and the token file is the
\* one found before the call.
C11_FailedLoginKeepsStore ==
    /\ [][C11_LoginStep]_vars
    /\ []((last.op = "login" /\ last.ret.kind = "raise") => file = last.pre)

C11_Witness ==
    /\ last.op = "login"
    /\ last.ans.status = "error"
    /\ last.ret = Raised(HTTPStatusError)
    /\ last.pre.kind = "blob"
    /\ file = last.pre

\* C12: when the callback port is taken as the listener is started, login
\* raises the bind error, binds nothing, and goes on neither to the wait nor
\* to the exchange; login reaches the wait only by binding the free port.
C12_BindStep ==
    /\ (pc = "idle" /\ port # "free" /\ (pc' # pc \/ last'.op = "login"))
       => (/\ last'.op = "login"
           /\ last'.ret = Raised("OSError")
           /\ last'.req = NoReq
           /\ pc' = "idle"
           /\ port' = port
           /\ _server' = _server)
    /\ (pc = "idle" /\ pc' # pc)
       => (port = "free" /\ port' = "self" /\ pc' = "open_browser")

C12_BindErrorPropagates == [][C12_BindStep]_vars

C12_Witness ==
    /\ last.op = "login"
    /\ last.ret = Raised("OSError")
    /\ port = "other"
    /\ pc = "idle"

\* The token records save_tokens may be given: a response body, or a record
\* that already carries a saved_at.
TokenRecords ==
    [access_token : AccessTokens,
     refresh_token : RefreshTokens \cup {Missing},
     saved_at : {Missing} \cup {isoformat(t) : t \in 0..MaxNow}]

\* C13: for any token record, save_tokens followed by load_tokens with the
\* same key returns the record given plus the saved_at stamp; so does the
\* store after a call that saved the endpoint's answer.
C13_SaveLoadRoundTrip ==
    /\ \A tokens \in TokenRecords :
         load_tokens(fernet, save_tokens(fernet, tokens, now)) = Stamp(tokens, now)
    /\ last.ans.status = "ok" => Stored = Stamp(last.ans.body, now)

C13_Witness ==
    /\ last.ans.status = "ok"
    /\ now > 0
    /\ Stored = Stamp(last.ans.body, now)
    /\ Stored.refresh_token = "R1"

\* The token file is one load_tokens cannot read with the key it holds.
Unreadable(f) ==
    \/ f.kind \in {"corrupt", "empty"}
    \/ f.kind = "blob" /\ f.key # fernet

\* C14: when the key was regenerated after the save, or the file is
\* corrupted, load_tokens returns None, and get_access_token returns None,
\* sending no request and leaving the file alone.
C14_UnreadableStoreIsAbsent ==
    /\ Unreadable(file)
       => /\ Stored = NoTokens
          /\ \A r \in NextLookups :
               r.ret = Returned(None) /\ r.req = NoReq /\ r.file = file
    /\ (last.op = "get_access_token" /\ Unreadable(last.pre))
       => (last.ret = Returned(None) /\ last.req = NoReq /\ file = last.pre)

C14_Witness ==
    /\ last.op = "get_access_token"
    /\ last.pre.kind = "blob"
    /\ last.pre.key # fernet
    /\ keyFile = fernet
    /\ last.ret = Returned(None)

\* C15, the state: clear_tokens leaves no file, whatever it finds, and
\* applied again changes nothing; after logout the file is the one
\* clear_tokens makes of the file found.
C15_Cleared ==
    /\ clear_tokens(file) = NoFile
    /\ clear_tokens(clear_tokens(file)) = clear_tokens(file)
    /\ last.op = "logout"
       => (file = clear_tokens(last.pre) /\ clear_tokens(file) = file)

\* C15: clear_tokens is idempotent and leaves the key file and the key held
\* as they were.
C15_ClearIdempotent ==
    /\ [](C15_Cleared)
    /\ [][last'.op = "logout" => (keyFile' = keyFile /\ fernet' = fernet)]_vars

C15_Witness ==
    /\ last.op = "logout"
    /\ last.pre = NoFile
    /\ file = NoFile

\* C16, the state: a token file that can be read carries a saved_at, which
\* is not later than the current time.
C16_Stamped ==
    file.kind = "blob"
    => /\ Has(json_loads(file.json).saved_at)
       /\ fromisoformat(json_loads(file.json).saved_at) <= now

\* C16, the steps: a step that writes the token file stamps the record with
\* the time of that step.
C16_WriteStep ==
    (file' # file /\ file'.kind = "blob")
    => (json_loads(file'.json).saved_at = isoformat(now) /\ now' = now)

\* C16: every record in the store carries the time of the write that
\* produced it.
C16_SavedAtIsWriteTime == [](C16_Stamped) /\ [][C16_WriteStep]_vars

C16_Witness ==
    /\ file.kind = "blob"
    /\ last.ans.status = "ok"
    /\ now > 0
    /\ json_loads(file.json).saved_at = isoformat(now)

\* C17: a load_tokens that runs while a save_tokens is under way reads either
\* the complete record the file held before the save or the complete record
\* being saved, never an empty or partly written file.
C17_ReaderSeesOldOrNew ==
    (reader.done /\ reader.during.pc = "opened")
        => \/ reader.tokens = load_tokens(fernet, reader.during.prev)
           \/ reader.tokens = Stamp(reader.during.tokens, reader.during.at)

\* C18: with an empty client_id or client_secret, neither the auth login
\* command nor connect starts the callback listener, opens the browser or
\* sends a request to the token endpoint.
C18_NoFlowWithoutCredentials ==
    (config.client_id = "" \/ config.client_secret = "")
        => /\ port # "self"
           /\ pc = "idle"
           /\ last.req = NoReq

\* C19: the callback handler answers 200 exactly when the request carries a
\* code and no error, and then records the code; it answers 400 when the
\* request carries an error, recording the error and leaving the code as it
\* was, and when it carries neither parameter, leaving both fields as they
\* were, so that a wait that had nothing recorded still has nothing recorded.
C19_CallbackResponse ==
    last.op = "_handle_callback" =>
        /\ last.ret.kind = "return"
        /\ last.ret.val \in {"200", "400"}
        /\ last.ret.val = "200"
              <=> (last.query.code # None /\ last.query.error = None)
        /\ last.ret.val = "200"
              => (_auth_code = last.query.code /\ _auth_error = last.was.error)
        /\ last.query.error # None
              => /\ last.ret.val = "400"
                 /\ _auth_error = last.query.error
                 /\ _auth_code = last.was.code
        /\ (last.query.code = None /\ last.query.error = None)
              => /\ last.ret.val = "400"
                 /\ _auth_code = last.was.code
                 /\ _auth_error = last.was.error
                 /\ (last.was.code = None /\ last.was.error = None)
                       => (_auth_code = None /\ _auth_error = None)

\* A redirect with a code and no error was answered 200 while the wait was
\* running, and the code is recorded.
C19_Witness ==
    /\ last.op = "_handle_callback"
    /\ last.query.code = "c1"
    /\ last.query.error = None
    /\ last.ret.val = "200"
    /\ _auth_code = "c1"
    /\ pc \in {"poll", "sleep"}

\* The tasks of the query that have a due date, and the day each is due.
HasDue(t) == t.due_date.kind = "datetime"
DueDay(t) == t.due_date.day

\* C20: the due filter returns, in list order, for 'today' exactly the tasks
\* due on today's date, for 'tomorrow' exactly those due on today + 1, for
\* 'overdue' exactly those due before today, and for 'week' exactly those due
\* on or before today + 7 (a task due 7 days out and one due yesterday are
\* both in); a task with no due date is in no bucket.
C20_DueBuckets ==
    query.done =>
        /\ query.due_filter = "today"
              => query.result =
                   SelectSeq(query.tasks,
                             LAMBDA t : HasDue(t) /\ DueDay(t) = query.today)
        /\ query.due_filter = "tomorrow"
              => query.result =
                   SelectSeq(query.tasks,
                             LAMBDA t : HasDue(t) /\ DueDay(t) = query.today + 1)
        /\ query.due_filter = "overdue"
              => query.result =
                   SelectSeq(query.tasks,
                             LAMBDA t : HasDue(t) /\ DueDay(t) < query.today)
        /\ query.due_filter = "week"
              => /\ query.result =
                      SelectSeq(query.tasks,
                                LAMBDA t : HasDue(t) /\ DueDay(t) <= query.today + 7)
                 /\ \A j \in 1..Len(query.tasks) :
                       (/\ HasDue(query.tasks[j])
                        /\ DueDay(query.tasks[j]) \in {query.today - 1, query.today + 7})
                          => \E r \in 1..Len(query.result) :
                                 query.result[r] = query.tasks[j]
        /\ \A r \in 1..Len(query.result) : HasDue(query.result[r])

\* The week bucket was asked for a list holding a task due 7 days out and a
\* task with no due date: the first is returned, the second is not.
C20_Witness ==
    /\ query.done
    /\ query.due_filter = "week"
    /\ Len(query.tasks) = 2
    /\ query.tasks[1].due_date.kind = "none"
    /\ HasDue(query.tasks[2])
    /\ DueDay(query.tasks[2]) = query.today + 7
    /\ query.result = <<query.tasks[2]>>

\* C29: each call of wait_for_authorization hands on only an outcome that a
\* callback delivered during that same call: when the wait returns a code, or
\* login raises a recorded authorization error, a redirect carrying a code or
\* an error arrived since the call began.
C29_OutcomeFromThisCall ==
    /\ pc = "exchange" => first_redirect # NoRedirect
    /\ (last.op = "login" /\ last.ret.kind = "raise" /\ last.ret.val \in Errors)
          => last.first # NoRedirect

\* A task of the plan has a due date; one datetime is not after another.
Dated(t) == t.due_date.kind = "datetime"
NotAfter(a, b) == a.day < b.day \/ (a.day = b.day /\ a.time <= b.time)

\* C21: the sorted plan holds the same tasks as the deduplicated list, and of
\* any two of its tasks the earlier one has the higher or the same priority;
\* at the same priority a dated task comes before every undated one and two
\* dated tasks stand earliest due date first.
C21_PlanOrder ==
    query.done =>
        /\ Len(query.sorted_tasks) = Len(query.unique_tasks)
        /\ {query.sorted_tasks[i] : i \in 1..Len(query.sorted_tasks)}
             = {query.unique_tasks[i] : i \in 1..Len(query.unique_tasks)}
        /\ \A i, j \in 1..Len(query.sorted_tasks) :
             i < j =>
               LET a == query.sorted_tasks[i]
                   b == query.sorted_tasks[j]
               IN /\ a.priority >= b.priority
                  /\ (a.priority = b.priority /\ Dated(b)) => Dated(a)
                  /\ (a.priority = b.priority /\ Dated(a) /\ Dated(b))
                        => NotAfter(a.due_date, b.due_date)

\* A low-priority task due first was fetched before two high-priority tasks:
\* the plan puts both high-priority tasks first, the earlier due in front.
C21_Witness ==
    /\ query.done
    /\ Len(query.all_tasks) = 3
    /\ query.all_tasks[1].priority = 1
    /\ query.all_tasks[1].due_date.kind = "datetime"
    /\ query.all_tasks[1].due_date.day = 1
    /\ query.all_tasks[2].priority = 5
    /\ query.all_tasks[2].due_date.kind = "datetime"
    /\ query.all_tasks[2].due_date.day = 2
    /\ query.all_tasks[3].priority = 5
    /\ query.all_tasks[3].due_date.kind = "datetime"
    /\ query.all_tasks[3].due_date.day = 1
    /\ query.sorted_tasks
         = <<query.all_tasks[3], query.all_tasks[2], query.all_tasks[1]>>

\* The places of the fetched list where an id occurs for the first time, and
\* the k-th of them.
FirstPlaces ==
    {i \in 1..Len(query.all_tasks) :
        \A j \in 1..(i - 1) : query.all_tasks[j].id # query.all_tasks[i].id}
FirstPlace(k) ==
    CHOOSE i \in FirstPlaces : Cardinality({j \in FirstPlaces : j <= i}) = k

\* C22: the deduplicated list holds each id once and every id of the fetched
\* list; its k-th record is the record at the k-th place where an id occurs
\* for the first time, so the first record of each id is kept and the kept
\* records stand in their fetched order.
C22_FirstOccurrenceWins ==
    query.done =>
        /\ \A i, j \in 1..Len(query.unique_tasks) :
             i # j => query.unique_tasks[i].id # query.unique_tasks[j].id
        /\ {query.unique_tasks[i].id : i \in 1..Len(query.unique_tasks)}
             = {query.all_tasks[i].id : i \in 1..Len(query.all_tasks)}
        /\ Len(query.unique_tasks) = Cardinality(FirstPlaces)
        /\ \A k \in 1..Len(query.unique_tasks) :
             query.unique_tasks[k] = query.all_tasks[FirstPlace(k)]

\* An id was fetched twice with different records, another id in between:
\* the first record and the other id are kept, in that order.
C22_Witness ==
    /\ query.done
    /\ Len(query.all_tasks) = 3
    /\ query.all_tasks[1].id = query.all_tasks[3].id
    /\ query.all_tasks[1] # query.all_tasks[3]
    /\ query.all_tasks[2].id # query.all_tasks[1].id
    /\ query.unique_tasks = <<query.all_tasks[1], query.all_tasks[2]>>

\* What each argument of the query asks of a task.
PassesDue(t) ==
    \/ query.due_filter = None
    \/ /\ t.due_date.kind = "datetime"
       /\ \/ query.due_filter = "today" /\ t.due_date.day = query.today
          \/ query.due_filter = "overdue" /\ t.due_date.day < query.today
PassesPriority(t) ==
    ~query.priority.given \/ t.priority = query.priority.level
PassesStatus(t) ==
    \/ query.status = None
    \/ query.status \in {"completed", "COMPLETED"} /\ t.status = 2
    \/ query.status = "open" /\ t.status = 0

\* Each filter of the query on its own, skipped when its argument is absent.
DueStep(ts) ==
    IF query.due_filter # None
    THEN _filter_by_due_date(ts, query.due_filter, query.today) ELSE ts
PriorityStep(ts) ==
    IF query.priority.given THEN by_priority(ts, query.priority.level) ELSE ts
StatusStep(ts) ==
    IF query.status # None THEN by_status(ts, query.status) ELSE ts

\* C23: list_tasks returns, in list order, exactly the tasks that pass the
\* due bucket, have the requested priority and have the requested status,
\* each condition counting only when its argument is given; the three
\* filters applied in any order give that same list.
C23_FiltersAreConjunctive ==
    query.done =>
        /\ query.result =
             SelectSeq(query.tasks,
                       LAMBDA t : PassesDue(t) /\ PassesPriority(t) /\ PassesStatus(t))
        /\ query.result = StatusStep(PriorityStep(DueStep(query.tasks)))
        /\ query.result = PriorityStep(StatusStep(DueStep(query.tasks)))
        /\ query.result = StatusStep(DueStep(PriorityStep(query.tasks)))
        /\ query.result = DueStep(StatusStep(PriorityStep(query.tasks)))
        /\ query.result = PriorityStep(DueStep(StatusStep(query.tasks)))
        /\ query.result = DueStep(PriorityStep(StatusStep(query.tasks)))

\* All three filters were given and each of them alone would have let a
\* task through that the query as a whole leaves out.
C23_Witness ==
    /\ query.done
    /\ query.due_filter = "overdue"
    /\ query.priority = [given |-> TRUE, level |-> 5]
    /\ query.status = "open"
    /\ Len(query.tasks) = 2
    /\ Len(query.result) = 1
    /\ query.result[1] = query.tasks[2]
    /\ query.tasks[1].priority = 5
    /\ query.tasks[1].status = 0
    /\ query.tasks[1].due_date.kind = "none"

\* C24: for every current weekday and every named weekday, "next <weekday>"
\* resolves to a day that is the named weekday and lies 1 to 7 days after
\* today, 7 days after when today is the named weekday.
C24_NextWeekday ==
    (query.done /\ query.date_str.text.kind = "next") =>
        /\ query.result.kind = "datetime"
        /\ weekday(query.result.ord) = target_weekday(query.date_str.text.word)
        /\ query.result.ord - query.now.ord \in 1..7
        /\ weekday(query.now.ord) = target_weekday(query.date_str.text.word)
              => query.result.ord = query.now.ord + 7

\* "next monday" was parsed on a Monday and gave the Monday a week later.
C24_Witness ==
    /\ query.done
    /\ query.date_str = Plain(NextPhrase("monday"))
    /\ weekday(query.now.ord) = 0
    /\ query.result.kind = "datetime"
    /\ query.result.ord = query.now.ord + 7

\* C25: "today" resolves to the current date at 23:59:59 and "tomorrow" to
\* the day after at 23:59:59, however the word is capitalised and whatever
\* white space surrounds it, for every current date and time.
C25_TodayTomorrow ==
    query.done =>
        /\ query.date_str.text = Keyword("today")
              => /\ query.result.kind = "datetime"
                 /\ query.result.ord = query.now.ord
                 /\ query.result.hour = 23
                 /\ query.result.minute = 59
                 /\ query.result.second = 59
        /\ query.date_str.text = Keyword("tomorrow")
              => /\ query.result.kind = "datetime"
                 /\ query.result.ord = query.now.ord + 1
                 /\ query.result.hour = 23
                 /\ query.result.minute = 59
                 /\ query.result.second = 59

\* " TOMORROW " was parsed in mid-morning and gave the next day at 23:59:59.
C25_Witness ==
    /\ query.done
    /\ query.date_str = Written(Keyword("tomorrow"), TRUE, TRUE, TRUE)
    /\ query.now.hour = 10
    /\ query.result.kind = "datetime"
    /\ query.result.ord = query.now.ord + 1
    /\ query.result.hour = 23

\* C26: "in N days" resolves to the same datetime value as the calendar date
\* N days ahead written without a time.
C26_InDaysIsExplicitDate ==
    (query.done /\ query.date_str.text.kind = "in"
       /\ query.date_str.text.word \in {"day", "days"})
        => query.result
             = _parse_date(Plain(DatePhrase(query.now.ord + query.date_str.text.n, "")),
                           query.now)

\* C27: _parse_date returns a datetime for every phrase that a keyword, a
\* relative-offset or a next-weekday rule matches, and raises only when none
\* of them matches and the general parser fails as well, with the date-parse
\* error.
C27_RaisesOnlyWhenNothingParses ==
    query.done =>
        /\ query.date_str.text.kind \in {"keyword", "in", "next"}
              => query.result.kind = "datetime"
        /\ query.result.kind = "raise"
              => /\ query.date_str.text.kind = "other"
                 /\ query.result.exc = "ValueError(Could not parse date)"

\* C30: "next month" resolves, for every current date, to a datetime at
\* 23:59:59 in the calendar month after the current one.
C30_NextMonth ==
    (query.done /\ query.date_str.text = Keyword("next month")) =>
        /\ query.result.kind = "datetime"
        /\ query.result.hour = 23
        /\ query.result.minute = 59
        /\ query.result.second = 59
        /\ IF month(query.now.ord) = 12
           THEN /\ month(query.result.ord) = 1
                /\ year(query.result.ord) = year(query.now.ord) + 1
           ELSE /\ month(query.result.ord) = month(query.now.ord) + 1
                /\ year(query.result.ord) = year(query.now.ord)

\* C28: a Task built from field names reads back the values given, with
\* priority 0 (NONE) and status 0 (NORMAL) when they are left out; its dump
\* by alias without None values carries projectId, isAllDay and, when a due
\* date was given, dueDate, with the values given, and none of the three
\* under its field name.
C28_TaskRoundTrip ==
    query.done =>
        /\ query.task.id = query.kwargs.id
        /\ query.task.project_id = query.kwargs.project_id
        /\ query.task.title = query.kwargs.title
        /\ query.task.content = query.kwargs.content
        /\ query.task.due_date = query.kwargs.due_date
        /\ query.kwargs.is_all_day.given
              => query.task.is_all_day = query.kwargs.is_all_day.val
        /\ query.task.priority
             = (IF query.kwargs.priority.given THEN query.kwargs.priority.val ELSE 0)
        /\ query.task.status
             = (IF query.kwargs.status.given THEN query.kwargs.status.val ELSE 0)
        /\ "projectId" \in DOMAIN query.data
        /\ query.data["projectId"] = query.kwargs.project_id
        /\ "isAllDay" \in DOMAIN query.data
        /\ query.data["isAllDay"] = query.task.is_all_day
        /\ query.kwargs.due_date.kind = "datetime"
              => /\ "dueDate" \in DOMAIN query.data
                 /\ query.data["dueDate"] = query.kwargs.due_date
        /\ query.kwargs.due_date.kind = "none" => "dueDate" \notin DOMAIN query.data
        /\ {"project_id", "is_all_day", "due_date"} \cap DOMAIN query.data = {}

\* A task was built with is_all_day False and a due date and without id,
\* priority and status, and dumped: isAllDay is False, dueDate is the date,
\* there is no id, and priority and status are the defaults.
C28_Witness ==
    /\ query.done
    /\ query.kwargs.id = None
    /\ query.kwargs.is_all_day = Given(FALSE)
    /\ query.kwargs.due_date.kind = "datetime"
    /\ ~query.kwargs.priority.given
    /\ ~query.kwargs.status.given
    /\ query.data["isAllDay"] = FALSE
    /\ query.data["dueDate"] = query.kwargs.due_date
    /\ "id" \notin DOMAIN query.data
    /\ query.task.priority = 0
    /\ query.task.status = 0

\* C32: while the browser is about to be opened or has been opened and the
\* wait is running, the callback listener of this handler is bound; a login
\* whose bind failed ends there, with the flow idle and the browser unopened.
C32_ListenerBeforeBrowser ==
    /\ [](pc \in {"open_browser", "poll", "sleep"}
            => (port = "self" /\ _server # None))
    /\ []((last.op = "login" /\ last.ret = Raised("OSError")) => pc = "idle")
    /\ [][(pc = "idle" /\ pc' # "idle") => (port' = "self" /\ pc' = "open_browser")]_vars

\* The browser has been opened and the wait is polling, with the listener
\* bound.
C32_Witness ==
    /\ pc = "poll"
    /\ port = "self"
    /\ _server = "runner"
    /\ _auth_code = None
    /\ _auth_error = None

\* C33: when the stored record is older than one hour and has no refresh
\* token, get_access_token returns None, sends no request and leaves the
\* token file as it was.
C33_ExpiredWithoutRefreshToken ==
    (/\ last.op = "get_access_token"
     /\ Found # NoTokens
     /\ now - fromisoformat(Found.saved_at) > Hour
     /\ Found.refresh_token = Missing)
    => /\ last.ret = Returned(None)
       /\ last.req = NoReq
       /\ file = last.pre
       /\ Stored = Found

\* An expired record without a refresh token was looked up and is still there.
C33_Witness ==
    /\ last.op = "get_access_token"
    /\ Found # NoTokens
    /\ Found.access_token = "A1"
    /\ Found.refresh_token = Missing
    /\ now - fromisoformat(Found.saved_at) > Hour
    /\ last.ret = Returned(None)
    /\ file = last.pre

\* C34: after a successful refresh the token file holds the response and a
\* new saved_at and nothing of the record before; when the response has no
\* refresh token the stored record has none, and a get_access_token after the
\* next expiry returns None without a request, whatever the endpoint would
\* answer.
C34_RefreshReplacesRecord ==
    (/\ last.op = "get_access_token"
     /\ last.req.grant_type = "refresh_token"
     /\ last.ans.status = "ok")
    => /\ load_tokens(fernet, file).access_token = last.ans.body.access_token
       /\ load_tokens(fernet, file).refresh_token = last.ans.body.refresh_token
       /\ load_tokens(fernet, file).saved_at = isoformat(now)
       /\ last.ans.body.refresh_token = Missing
            => \A a \in Answers :
                 LET r == get_access_token(fernet, file, a, now + Hour + 1) IN
                 /\ r.ret = Returned(None)
                 /\ r.req = NoReq
                 /\ r.file = file

\* A record with a refresh token was refreshed by a response without one.
C34_Witness ==
    /\ last.op = "get_access_token"
    /\ last.req = refresh_request("R1")
    /\ last.ans.status = "ok"
    /\ last.ans.body.refresh_token = Missing
    /\ load_tokens(fernet, last.pre).refresh_token = "R1"
    /\ load_tokens(fernet, file).refresh_token = Missing

\* One sequence is a subsequence of another; the number of places of a
\* sequence that hold a record.
RECURSIVE IsSubsequence(_, _)
IsSubsequence(s, t) ==
    IF s = <<>> THEN TRUE
    ELSE IF t = <<>> THEN FALSE
    ELSE IF Head(s) = Head(t) THEN IsSubsequence(Tail(s), Tail(t))
    ELSE IsSubsequence(s, Tail(t))
Occurrences(s, r) == Cardinality({i \in 1..Len(s) : s[i] = r})

\* C31: the list returned by list_tasks, and so by the due filter alone, is
\* a subsequence of the fetched list, and a record that is returned is
\* returned as many times as it was fetched: nothing is added, reordered or
\* deduplicated.
C31_FiltersKeepOrderAndDuplicates ==
    query.done =>
        /\ IsSubsequence(query.result, query.tasks)
        /\ \A i \in 1..Len(query.result) :
             Occurrences(query.result, query.result[i])
                = Occurrences(query.tasks, query.result[i])
        /\ (~query.priority.given /\ query.status = None /\ query.due_filter # None)
              => query.result
                   = _filter_by_due_date(query.tasks, query.due_filter, query.today)

\* The same record was fetched twice and passed the due filter twice.
C31_Witness ==
    /\ query.done
    /\ query.due_filter = "today"
    /\ Len(query.tasks) = 2
    /\ query.tasks[1] = query.tasks[2]
    /\ query.result = query.tasks

\* The tasks of the query's list that a bucket selects today.
Bucket(due_filter) ==
    LET selected == _filter_by_due_date(query.tasks, due_filter, query.today) IN
    {selected[i] : i \in 1..Len(selected)}

\* C36: for the task list and the date of the query, no task is in two of
\* the buckets 'overdue', 'today' and 'tomorrow', and every task of one of
\* them is in 'week'; the list the query returned for one of the three is
\* within the week bucket and apart from the other two.
C36_BucketRelations ==
    /\ Bucket("overdue") \cap Bucket("today") = {}
    /\ Bucket("overdue") \cap Bucket("tomorrow") = {}
    /\ Bucket("today") \cap Bucket("tomorrow") = {}
    /\ Bucket("overdue") \subseteq Bucket("week")
    /\ Bucket("today") \subseteq Bucket("week")
    /\ Bucket("tomorrow") \subseteq Bucket("week")
    /\ (query.done /\ query.due_filter \in {"overdue", "today", "tomorrow"})
          => \A i \in 1..Len(query.result) :
               /\ query.result[i] \in Bucket("week")
               /\ \A other \in {"overdue", "today", "tomorrow"} \ {query.due_filter} :
                    query.result[i] \notin Bucket(other)

\* The overdue bucket was asked for a list with a task due yesterday and a
\* task due today: the first is returned, and is in the week bucket with the
\* second.
C36_Witness ==
    /\ query.done
    /\ query.due_filter = "overdue"
    /\ Len(query.tasks) = 2
    /\ query.tasks[1].due_date.kind = "datetime"
    /\ query.tasks[1].due_date.day = query.today - 1
    /\ query.tasks[2].due_date.kind = "datetime"
    /\ query.tasks[2].due_date.day = query.today
    /\ query.result = <<query.tasks[1]>>
    /\ Bucket("week") = {query.tasks[1], query.tasks[2]}

\* C37: batch_complete sends one completion request for every pair, in the
\* order of the pairs and with the pair's project and task, whether or not
\* earlier requests failed; it does not raise, and it returns the number of
\* requests that went through.
C37_BatchCountsSuccesses ==
    query.done =>
        /\ ~query.returned.raised
        /\ Len(query.returned.requests) = Len(query.task_ids)
        /\ \A i \in 1..Len(query.task_ids) :
             /\ query.returned.requests[i].project_id = query.task_ids[i][1]
             /\ query.returned.requests[i].task_id = query.task_ids[i][2]
        /\ query.returned.completed
             = Cardinality({i \in 1..Len(query.task_ids) : query.outcomes[i] = "ok"})
        /\ query.returned.completed \in 0..Len(query.task_ids)

\* The first of three requests failed and the other two went through.
C37_Witness ==
    /\ query.done
    /\ query.outcomes = <<"fail", "ok", "ok">>
    /\ Len(query.returned.requests) = 3
    /\ query.returned.completed = 2

\* C35: the handler's recorded code and error after a callback request, and
\* the status of the response, are those the same request would have had
\* with any other state parameter, or with none.
C35_StateParameterIgnored ==
    [][query'.requests # query.requests =>
        \A s \in States \cup {None} :
            LET other == handle_request([query'.request EXCEPT !.state = s])
            IN /\ _auth_code' = other.code
               /\ _auth_error' = other.error
               /\ query'.status = other.status]_vars

\* A request whose state is not the one the authorization URL carried was
\* answered 200 and its code recorded.
C35_Witness ==
    /\ query.request.state = "forged"
    /\ query.url.state = "random_state"
    /\ query.request.code = "c1"
    /\ query.status = 200
    /\ _auth_code = "c1"

\* C38: connect with a token already set on the client leaves the auth
\* handler and the token file alone; the login flow starts only in the step
\* in which get_access_token returned None to a client without a token; a
\* connect or request that ended with no token has raised, built no client
\* and sent nothing; after close there is no client; and a request is sent
\* only through a client built from the client's own token, which is not None.
C38_ConnectOrder ==
    /\ [][(query.access_token # None /\ query'.caller # "none" /\ query' # query) =>
            (/\ last' = NoCall
             /\ UNCHANGED <<file, port, _server, pc, _auth_code, _auth_error,
                            code, first_redirect>>
             /\ query'.access_token = query.access_token)]_vars
    /\ [][(pc = "idle" /\ pc' # "idle") =>
            (/\ query.access_token = None
             /\ query.auth_handler
             /\ last'.op = "get_access_token"
             /\ last'.ret = Returned(None)
             /\ query'.caller \in {"connect", "request"}
             /\ query'.pc = "login")]_vars
    /\ []((query.pc = "idle" /\ query.caller \in {"connect", "request"}
           /\ query.access_token = None) =>
            (query.ret.kind = "raise" /\ query._client = None /\ query.sent = None))
    /\ [](query.caller = "close" => query._client = None)
    /\ [](query._client # None =>
            (query._client = query.access_token /\ query.access_token \in AccessTokens))
    /\ [](query.sent # None =>
            (query.caller = "request" /\ query.sent = query._client
             /\ query._client # None))
    /\ [][(query._client = None /\ query'.sent # None) =>
            (query'._client = query'.access_token /\ query'.access_token # None)]_vars

\* A request of a client that had no client and no token: it connected
\* through get_access_token, which returned the stored token, and was sent
\* with that token.
C38_Witness ==
    /\ query.caller = "request"
    /\ query.sent \in AccessTokens
    /\ last.op = "get_access_token"
    /\ last.ret = Returned(query.sent)
    /\ query._client = query.sent

====
